---- MODULE Spec2Model ----
(***************************************************************************)
(* A model of AnimeSonarrProxy: the Nyaa RSS client (rate limiter, retry   *)
(* on 429, response cache), the mapping service (overrides, cache,         *)
(* catalog) and the Torznab /api handler.                                  *)
(*                                                                         *)
(* Time.  The rate limiter reads the event loop's monotonic clock          *)
(* (asyncio loop.time()) and uses it only in differences: the model keeps, *)
(* in milliseconds, the time elapsed since each instant the code           *)
(* remembers and the time left of each sleep, so that no run is cut short  *)
(* by a horizon.  The caches read the wall clock (datetime.utcnow()) and   *)
(* store its readings; it is the variable utc, in seconds.                 *)
(***************************************************************************)
EXTENDS Integers, Sequences, FiniteSets, TLC

VARIABLES
    \* ---- NyaaClient (src/app/services/nyaa.py)
    pc,               \* where each search task stands
    permits,          \* value of NyaaClient._semaphore
    lockHeld,         \* task holding NyaaClient._request_lock, 0 when free
    sinceLast,        \* loop.time() - NyaaClient._last_request_time (ms)
    searchCache,      \* NyaaClient._search_cache, in dict (insertion) order
    utc,              \* datetime.utcnow() (s)
    sleep,            \* time left of the task's asyncio.sleep (ms)
    attempt,          \* local variable attempt of _rate_limited_request
    cur,              \* the running search's query and limit
    \* ---- history of the Nyaa client, for the properties
    sleeps,           \* backoff sleeps of the task's running search
    statuses,         \* statuses received by the task's running search
    log,              \* the searches that have returned, in order of return
    sinceSend,        \* time elapsed since the latest HTTP request started
    tooClose,         \* two requests started less than the delay apart
    evicted,          \* what the last _cache_results removed, NoEntry if nothing
    \* ---- MappingService (src/app/services/mapping.py)
    overrides,        \* MappingService.overrides
    mapCache,         \* MappingService.cache
    mappingsFile,     \* the file DATA_DIR/mappings.json
    overridesFile,    \* the file DATA_DIR/overrides.json
    mpc,              \* where each caller of get_mapping stands
    mcall,            \* the running get_mapping: its id and what it has read
    mlast,            \* the get_mapping call that returned last
    \* ---- the Torznab handler (src/app/api/torznab.py)
    sonarrConfigured, \* sonarr_client.is_configured()
    sonarrEpisodes,   \* the episodes Sonarr lists for the series
    apc,              \* where the request stands
    req,              \* the query parameters of the request
    handler,          \* the handler torznab_api dispatched to
    apiMapping,       \* what get_mapping returned to the handler
    resp,             \* the response
    effects,          \* the services the handler has called, in order
    dispatched,       \* the searches handle_tvsearch_special dispatched
    \* ---- QueryService.search_anime (src/app/services/query.py) and
    \* ---- EpisodeTranslator.to_absolute (src/app/services/episode.py)
    pin,              \* the arguments of search_anime and what they refer to
    ppc,              \* where the call of search_anime stands
    pxem,             \* what the episode-map service answered to_absolute
    pabs,             \* what to_absolute returned
    psent,            \* the queries given to search_client.search, in order
    \* ---- handle_search (src/app/api/torznab.py)
    hpc,              \* where the call of handle_search stands
    hquery,           \* its argument query, a sequence of characters
    hflag,            \* its argument is_special
    hsearch,          \* what it searches for
    \* ---- QueryService._deduplicate_results (src/app/services/query.py)
    \* ---- and the merge loops of src/app/api/torznab.py
    dpc,              \* where the deduplication stands
    dxs,              \* the results given to it
    dout,             \* what _deduplicate_results made of them
    dout2,            \* what _deduplicate_results made of its own output
    dmerged,          \* what the handlers' loop over seen_guids made of them
    \* ---- NyaaClient.build_combined_query (src/app/services/nyaa.py)
    bpc,              \* where the call stands
    bargs,            \* its arguments titles, episodes, keywords
    bquery,           \* the query it returned, a sequence of characters
    \* ---- QueryService._execute_queries (src/app/services/query.py)
    gpc,              \* where _execute_queries stands
    gtasks,           \* the searches it started: running, returned, raised
    gall,             \* all_results
    \* ---- the lists NyaaClient.search hands out (src/app/services/nyaa.py)
    \* ---- in the hands of its callers (src/app/api/torznab.py)
    kpc,              \* the handler that ran last
    kquery,           \* the title the requests search for
    kcache,           \* NyaaClient._search_cache: the list under each key
    kstored,          \* the content of each list when it was stored
    \* ---- AniListClient._wait_for_rate_limit (src/app/services/anilist.py)
    wpc,              \* where each query stands
    tokens,           \* AniListClient.rate_limit_tokens
    sinceReset,       \* datetime.utcnow() - AniListClient.last_reset (s)
    wlock,            \* the query holding AniListClient._lock, 0 when free
    wsleep,           \* time left of the asyncio.sleep under the lock (s)
    admitted,         \* the queries let through since the last reset
    early,            \* a query found no token and passed before the window ended
    \* ---- the persisted caches (src/app/services/mapping.py, thexem.py)
    \* ---- and the override endpoints (src/app/api/webui.py)
    spc,              \* "new" after __init__, "ready" after the load
    skind,            \* the cache the run follows
    sfile,            \* its file in DATA_DIR
    smem,             \* its dict in memory, in insertion order
    sfailed,          \* the load has logged a failure
    slast,            \* the operation that ran last, and how its write ended
    \* ---- AnimeOfflineDatabase (src/app/services/anime_db.py)
    cpc,              \* "new" after __init__, "ready" after initialize
    cdata,            \* AnimeOfflineDatabase.data
    cindex,           \* AnimeOfflineDatabase._tvdb_index and _tmdb_index
    cupdated,         \* last_update: "none", "old" (over the interval), "recent"
    cfile,            \* the file DATA_DIR/anime-offline-database.json
    cold,             \* the file was written more than the interval ago
    clast,            \* the operation that ran last, its inputs, the state before
    \* ---- SonarrClient.get_wanted_episode_by_episode_number
    \* ---- (src/app/services/sonarr.py)
    qpc,              \* where the call stands
    qnum,             \* its argument episode_num
    qret,             \* the EpisodeInfo it returned, NoEpisodeInfo for None
    \* ---- QueryService._normalize_title (src/app/services/query.py)
    npc,              \* where the calls stand
    ntitle,           \* the title given to it
    nout,             \* what it made of the title
    nout2             \* what it made of its own output

nyaaVars == <<pc, permits, lockHeld, sinceLast, searchCache,
              sleep, attempt, cur, sleeps, statuses, log,
              sinceSend, tooClose, evicted>>

mapVars == <<overrides, mapCache, mappingsFile, overridesFile, mpc, mcall,
             mlast>>

apiVars == <<sonarrConfigured, sonarrEpisodes, apc, req, handler, apiMapping,
             resp, effects, dispatched>>

planVars == <<pin, ppc, pxem, pabs, psent>>

sniffVars == <<hpc, hquery, hflag, hsearch>>

dedupVars == <<dpc, dxs, dout, dout2, dmerged>>

\* the functions modelled call by call
comboVars == <<bpc, bargs, bquery>>

gatherVars == <<gpc, gtasks, gall>>

sharedVars == <<kpc, kquery, kcache, kstored>>

bucketVars == <<wpc, tokens, sinceReset, wlock, wsleep, admitted, early>>

\* the components of the single functions, and those of the clients and
\* files the services rest on
earlyVars == <<sniffVars, dedupVars, comboVars, gatherVars, sharedVars>>

storeVars == <<spc, skind, sfile, smem, sfailed, slast>>

\* what the bucket and what the persisted caches leave alone
catalogVars == <<cpc, cdata, cindex, cupdated, cfile, cold, clast>>

wantedVars == <<qpc, qnum, qret>>

normalVars == <<npc, ntitle, nout, nout2>>

offBucket == <<storeVars, catalogVars, wantedVars, normalVars>>

offStore == <<bucketVars, catalogVars, wantedVars, normalVars>>

offCatalog == <<bucketVars, storeVars, wantedVars, normalVars>>

offWanted == <<bucketVars, storeVars, catalogVars, normalVars>>

offNormal == <<bucketVars, storeVars, catalogVars, wantedVars>>

lateVars == <<bucketVars, storeVars, catalogVars, wantedVars, normalVars>>

callVars == <<earlyVars, lateVars>>

\* the services
serviceVars == <<utc, nyaaVars, mapVars, apiVars, planVars>>

vars == <<serviceVars, callVars>>

----------------------------------------------------------------------------
(* Program constants of nyaa.py.  Delays are in milliseconds.              *)

NYAA_CACHE_TTL == 60

NYAA_MAX_CONCURRENT_REQUESTS == 2

\* NYAA_REQUEST_DELAY_SECONDS = 0.5, in milliseconds
NYAA_REQUEST_DELAY_MS == 500

\* max_retries: int = 3
MAX_RETRIES == 3

\* if len(self._search_cache) > 100
NYAA_CACHE_MAX_ENTRIES == 100

\* backoff = attempt * 1.0 (seconds), in milliseconds
BackoffWrong(a) == 1000

Backoff(a) == a * 1000

----------------------------------------------------------------------------
(* Bounds of the model.                                                    *)

\* granularity of the loop clock (ms) in the rate-limiter runs and in the
\* search runs
TickMs == 500

SearchTickMs == 3000

\* granularity of the wall clock (s) and its horizon, in steps
UtcStep == 30

MaxUtcSteps == 2

\* entries already in the cache when the cache-capacity runs start
Prefill == 99

Tasks == {1, 2, 3}

Queries == {"frieren"}

Limits == {1, 2}

\* what the indexer may answer: 200, 429 (rate limited), 503 (another HTTP
\* error) and 0 for a transport failure (httpx.TransportError)
Statuses == {200, 429, 503, 0}

Item(g, s) == [guid |-> g, seeders |-> s]

\* RSS bodies: the items of the channel, or a body that is not XML
Feeds == { <<Item("g1", 5), Item("g2", 9)>> }

Bodies == [wellFormed : {TRUE}, items : Feeds]
              \cup {[wellFormed |-> FALSE, items |-> <<>>]}

\* the lowest idle task takes the next search: idle tasks are
\* interchangeable
NextIdle(t) == \A u \in Tasks : u < t => pc[u] # "idle"

NoSearch == [query |-> "", limit |-> 0]

NoEntry == [key |-> <<>>, at |-> -1]

\* what a response that carries no feed holds (an error page, nothing)
NotXml == [wellFormed |-> FALSE, items |-> <<>>]

\* a finished search: its key, whether the cache served it, the statuses it
\* received, the backoffs it slept, the body of the last response, what the
\* search returned and, when the cache served it, the age of the entry
Returned(key, hit, sts, sls, body, results, age) ==
    [key |-> key, hit |-> hit, statuses |-> sts, sleeps |-> sls,
     body |-> body, ret |-> results, age |-> age]

----------------------------------------------------------------------------
(* NyaaClient: settings, cache key, cache operations, result processing.   *)

\* settings.NYAA_ENGLISH_ONLY and settings.NYAA_TRUSTED_ONLY (config.py)
NYAA_ENGLISH_ONLY == TRUE

NYAA_TRUSTED_ONLY == FALSE

Category == IF NYAA_ENGLISH_ONLY THEN "1_2" ELSE "1_0"

FilterCode == IF NYAA_TRUSTED_ONLY THEN "2" ELSE "0"

\* f"nyaa|{query}|{category}|{filter_code}|{limit}"
get_cache_key(query, category, filter_code, limit) ==
    <<"nyaa", query, category, filter_code, limit>>

\* position of key k in the dict, 0 when k is not in it
CacheIndex(c, k) ==
    IF \E i \in 1..Len(c) : c[i].key = k
    THEN CHOOSE i \in 1..Len(c) : c[i].key = k
    ELSE 0

RemoveAt(c, i) == [j \in 1..(Len(c) - 1) |-> IF j < i THEN c[j] ELSE c[j + 1]]

\* age < NYAA_CACHE_TTL
FreshInclusive(age) == age <= NYAA_CACHE_TTL

Fresh(age) == age < NYAA_CACHE_TTL

\* _get_cached_results: the cached list when the entry is younger than the
\* TTL; an expired entry is deleted
get_cached_results(c, k, t) ==
    LET i == CacheIndex(c, k) IN
    IF i = 0 THEN [found |-> FALSE, results |-> <<>>, cache |-> c]
    ELSE IF Fresh(t - c[i].at)
         THEN [found |-> TRUE, results |-> c[i].results, cache |-> c]
         ELSE [found |-> FALSE, results |-> <<>>, cache |-> RemoveAt(c, i)]

\* min(self._search_cache.keys(), key=lambda k: self._search_cache[k][1]):
\* the first entry, in dict order, among those with the smallest timestamp
OldestIndexNewest(c) ==
    CHOOSE i \in 1..Len(c) :
        /\ \A j \in 1..Len(c) : c[i].at >= c[j].at
        /\ \A j \in 1..(i - 1) : c[j].at # c[i].at

OldestIndex(c) ==
    CHOOSE i \in 1..Len(c) :
        /\ \A j \in 1..Len(c) : c[i].at <= c[j].at
        /\ \A j \in 1..(i - 1) : c[j].at # c[i].at

\* self._search_cache[cache_key] = (results, datetime.utcnow()): a key that
\* is already in the dict keeps its position
PutEntry(c, k, results, t) ==
    LET i == CacheIndex(c, k)
        e == [key |-> k, results |-> results, at |-> t]
    IN IF i = 0 THEN Append(c, e) ELSE [c EXCEPT ![i] = e]

\* len(self._search_cache) > 100
OverCapacity(c) == Len(c) > NYAA_CACHE_MAX_ENTRIES

\* _cache_results: store, then prune the oldest entry when over capacity
cache_results(c, k, results, t) ==
    LET c1 == PutEntry(c, k, results, t) IN
    IF OverCapacity(c1)
    THEN [cache |-> RemoveAt(c1, OldestIndex(c1)),
          evicted |-> [key |-> c1[OldestIndex(c1)].key,
                       at |-> c1[OldestIndex(c1)].at]]
    ELSE [cache |-> c1, evicted |-> NoEntry]

\* _parse_rss_response: the items of the channel; a body that is not XML
\* is logged and gives the empty list
parse_rss_response(body) == IF body.wellFormed THEN body.items ELSE <<>>

\* results[:limit]
Take(s, n) == IF Len(s) > n THEN SubSeq(s, 1, n) ELSE s

\* the place of s[i] in a stable descending sort by seeders: after the
\* elements with more seeders and the earlier ones with as many
SeedersRank(s, i) ==
    1 + Cardinality({ j \in 1..Len(s) :
                        \/ s[j].seeders > s[i].seeders
                        \/ s[j].seeders = s[i].seeders /\ j < i })

\* results.sort(key=lambda x: x.seeders, reverse=True)
SortBySeeders(s) ==
    LET rank == [i \in 1..Len(s) |-> SeedersRank(s, i)]
    IN [k \in 1..Len(s) |-> s[CHOOSE i \in 1..Len(s) : rank[i] = k]]

\* search, lines 290-298: parse, apply the limit, then sort by seeders
ProcessResponse(body, limit) ==
    SortBySeeders(Take(parse_rss_response(body), limit))

\* response.raise_for_status(): a 4xx or 5xx status raises httpx.HTTPError
RaisesForStatus(status) == status >= 400

----------------------------------------------------------------------------
(* NyaaClient.search and _rate_limited_request, one action per stretch of  *)
(* code between two suspension points.                                     *)
(*   idle     search not called yet                                        *)
(*   sem      at "async with self._semaphore"                              *)
(*   lock     holding a permit, at "async with self._request_lock"         *)
(*   pace     holding the lock, in asyncio.sleep(DELAY - time_since_last)  *)
(*   wait     in "await client.get(url)": a request is in flight           *)
(*   backoff  in asyncio.sleep(backoff) after a 429                        *)
(*   done     search has returned                                          *)
(*   cancelled  the task of the search was cancelled                       *)

InFlight == {t \in Tasks : pc[t] = "wait"}

\* client.get(url) is called: a request starts now
StartRequest(t) ==
    /\ sinceSend' = 0
    /\ tooClose' = (tooClose \/ sinceSend < NYAA_REQUEST_DELAY_MS)

\* search() up to the cache lookup (lines 254-277); each task is one call
\* of search
Search(t, query, limit) ==
    LET key  == get_cache_key(query, Category, FilterCode, limit)
        look == get_cached_results(searchCache, key, utc)
    IN
    /\ pc[t] = "idle"
    /\ searchCache' = look.cache
    /\ evicted' = IF look.cache = searchCache THEN evicted ELSE NoEntry
    /\ IF look.found
       THEN /\ log' = Append(log, Returned(key, TRUE, <<>>, <<>>, NotXml,
                                look.results,
                                utc - searchCache[CacheIndex(searchCache, key)].at))
            /\ pc' = [pc EXCEPT ![t] = "done"]
            /\ cur' = cur
       ELSE /\ pc' = [pc EXCEPT ![t] = "sem"]
            /\ cur' = [cur EXCEPT ![t] = [query |-> query, limit |-> limit]]
            /\ log' = log
    /\ UNCHANGED <<permits, lockHeld, sinceLast, utc, sleep,
                   attempt, sleeps, statuses, sinceSend, tooClose>>
    /\ UNCHANGED <<mapVars, apiVars, planVars, callVars>>

\* the semaphore lets a task in while its value is positive
CanAcquireAlways(p) == TRUE

CanAcquire(p) == p > 0

\* async with self._semaphore (line 208)
AcquireSemaphore(t) ==
    /\ pc[t] = "sem"
    /\ CanAcquire(permits)
    /\ permits' = permits - 1
    /\ pc' = [pc EXCEPT ![t] = "lock"]
    /\ UNCHANGED <<lockHeld, sinceLast, searchCache, utc, sleep,
                   attempt, cur, sleeps, statuses, log,
                   sinceSend, tooClose, evicted>>
    /\ UNCHANGED <<mapVars, apiVars, planVars, callVars>>

\* async with self._request_lock (lines 210-215), then the first
\* client.get (line 218).  When the last request is recent the task sleeps
\* holding the lock; otherwise it stamps the time, leaves the lock and
\* sends without suspending.
AcquireLock(t) ==
    LET time_since_last == sinceLast IN
    /\ pc[t] = "lock"
    /\ lockHeld = 0
    /\ IF time_since_last < NYAA_REQUEST_DELAY_MS
       THEN /\ lockHeld' = t
            /\ sleep' = [sleep EXCEPT ![t] =
                             NYAA_REQUEST_DELAY_MS - time_since_last]
            /\ pc' = [pc EXCEPT ![t] = "pace"]
            /\ UNCHANGED <<sinceLast, sinceSend, tooClose>>
       ELSE /\ sinceLast' = 0
            /\ StartRequest(t)
            /\ pc' = [pc EXCEPT ![t] = "wait"]
            /\ UNCHANGED <<lockHeld, sleep>>
    /\ UNCHANGED <<permits, searchCache, utc, attempt, cur, sleeps,
                   statuses, log, evicted>>
    /\ UNCHANGED <<mapVars, apiVars, planVars, callVars>>

\* asyncio.sleep(...) of line 214 returns: stamp the time (line 215), leave
\* the lock, send (line 218)
PaceDone(t) ==
    /\ pc[t] = "pace"
    /\ sleep[t] = 0
    /\ sinceLast' = 0
    /\ lockHeld' = 0
    /\ StartRequest(t)
    /\ pc' = [pc EXCEPT ![t] = "wait"]
    /\ UNCHANGED <<permits, searchCache, utc, sleep, attempt, cur,
                   sleeps, statuses, log, evicted>>
    /\ UNCHANGED <<mapVars, apiVars, planVars, callVars>>

\* while last_response.status_code == 429 and attempt < max_retries
Retries(status, a) == status = 429 /\ a < MAX_RETRIES

\* client.get returns or raises (lines 218-231), and, when the retry loop
\* ends, the rest of search (lines 285-319)
Respond(t, status, body) ==
    LET key     == get_cache_key(cur[t].query, Category, FilterCode,
                                 cur[t].limit)
        results == ProcessResponse(body, cur[t].limit)
        stored  == cache_results(searchCache, key, results, utc)
        sts     == Append(statuses[t], status)
    IN
    /\ pc[t] = "wait"
    /\ IF Retries(status, attempt[t])
       THEN /\ attempt' = [attempt EXCEPT ![t] = @ + 1]
            /\ statuses' = [statuses EXCEPT ![t] = sts]
            /\ sleeps' = [sleeps EXCEPT ![t] = Append(@, Backoff(attempt[t] + 1))]
            /\ sleep' = [sleep EXCEPT ![t] = Backoff(attempt[t] + 1)]
            /\ pc' = [pc EXCEPT ![t] = "backoff"]
            /\ UNCHANGED <<permits, searchCache, cur, log, evicted>>
       ELSE /\ permits' = permits + 1
            /\ attempt' = [attempt EXCEPT ![t] = 0]
            /\ statuses' = [statuses EXCEPT ![t] = <<>>]
            /\ sleeps' = [sleeps EXCEPT ![t] = <<>>]
            /\ cur' = [cur EXCEPT ![t] = NoSearch]
            /\ pc' = [pc EXCEPT ![t] = "done"]
            /\ IF status = 0 \/ RaisesForStatus(status)
               THEN /\ log' = Append(log, Returned(key, FALSE, sts, sleeps[t],
                                                   body, <<>>, -1))
                    /\ UNCHANGED <<searchCache, evicted>>
               ELSE /\ log' = Append(log, Returned(key, FALSE, sts, sleeps[t],
                                                   body, results, -1))
                    /\ searchCache' = stored.cache
                    /\ evicted' = stored.evicted
            /\ UNCHANGED sleep
    /\ UNCHANGED <<lockHeld, sinceLast, utc, sinceSend, tooClose>>
    /\ UNCHANGED <<mapVars, apiVars, planVars, callVars>>

\* asyncio.sleep(backoff) returns (line 228): send again (line 229)
BackoffDone(t) ==
    /\ pc[t] = "backoff"
    /\ sleep[t] = 0
    /\ StartRequest(t)
    /\ pc' = [pc EXCEPT ![t] = "wait"]
    /\ UNCHANGED <<permits, lockHeld, sinceLast, searchCache, utc, sleep,
                   attempt, cur, sleeps, statuses, log, evicted>>
    /\ UNCHANGED <<mapVars, apiVars, planVars, callVars>>

\* a task past "async with self._semaphore" and not out of it yet holds a
\* permit
PermitHeldNever(at) == FALSE

PermitHeld(at) == at \in {"lock", "pace", "wait", "backoff"}

\* the task of a running search is cancelled: CancelledError is raised at
\* the await it stands at and leaves the "async with" blocks it is in
\* (lines 208-231), which release the lock and the permit it holds; search
\* does not catch it and stores nothing
Cancel(t) ==
    /\ pc[t] \in {"sem", "lock", "pace", "wait", "backoff"}
    /\ pc' = [pc EXCEPT ![t] = "cancelled"]
    /\ permits' = IF PermitHeld(pc[t]) THEN permits + 1 ELSE permits
    /\ lockHeld' = IF lockHeld = t THEN 0 ELSE lockHeld
    /\ sleep' = [sleep EXCEPT ![t] = 0]
    /\ attempt' = [attempt EXCEPT ![t] = 0]
    /\ statuses' = [statuses EXCEPT ![t] = <<>>]
    /\ sleeps' = [sleeps EXCEPT ![t] = <<>>]
    /\ cur' = [cur EXCEPT ![t] = NoSearch]
    /\ UNCHANGED <<sinceLast, searchCache, utc, log, sinceSend, tooClose,
                   evicted>>
    /\ UNCHANGED <<mapVars, apiVars, planVars, callVars>>

\* clear_cache (lines 91-94)
clear_cache ==
    /\ searchCache # <<>>
    /\ searchCache' = <<>>
    /\ evicted' = NoEntry
    /\ UNCHANGED <<pc, permits, lockHeld, sinceLast, utc, sleep,
                   attempt, cur, sleeps, statuses, log,
                   sinceSend, tooClose>>
    /\ UNCHANGED <<mapVars, apiVars, planVars, callVars>>

\* an elapsed time after step more milliseconds; the code compares elapsed
\* times with the request delay only, so they saturate there
Elapse(d, step) ==
    IF d + step >= NYAA_REQUEST_DELAY_MS THEN NYAA_REQUEST_DELAY_MS
    ELSE d + step

\* what is left of a sleep after step more milliseconds
Remain(r, step) == IF r > step THEN r - step ELSE 0

\* the event loop's clock advances by step
TickLoop(step) ==
    /\ \/ sinceLast < NYAA_REQUEST_DELAY_MS
       \/ sinceSend < NYAA_REQUEST_DELAY_MS
       \/ \E t \in Tasks : sleep[t] > 0
    /\ sinceLast' = Elapse(sinceLast, step)
    /\ sinceSend' = Elapse(sinceSend, step)
    /\ sleep' = [t \in Tasks |-> Remain(sleep[t], step)]
    /\ UNCHANGED <<pc, permits, lockHeld, searchCache, utc,
                   attempt, cur, sleeps, statuses, log,
                   tooClose, evicted>>
    /\ UNCHANGED <<mapVars, apiVars, planVars, callVars>>

\* the wall clock advances by step, up to the horizon of steps steps
TickUtc(step, steps) ==
    /\ utc + step <= steps * step
    /\ utc' = utc + step
    /\ UNCHANGED <<pc, permits, lockHeld, sinceLast, searchCache,
                   sleep, attempt, cur, sleeps, statuses, log,
                   sinceSend, tooClose, evicted>>
    /\ UNCHANGED <<mapVars, apiVars, planVars, callVars>>

\* NyaaClient.__init__ (lines 53-60): _last_request_time is 0.0 and the
\* origin of loop.time() is arbitrary, so the first time_since_last is
\* anything; no request has been sent
InitNyaa ==
    /\ pc = [t \in Tasks |-> "idle"]
    /\ permits = NYAA_MAX_CONCURRENT_REQUESTS
    /\ lockHeld = 0
    /\ sinceLast \in {0, NYAA_REQUEST_DELAY_MS}
    /\ searchCache = <<>>
    /\ utc = 0
    /\ sleep = [t \in Tasks |-> 0]
    /\ attempt = [t \in Tasks |-> 0]
    /\ cur = [t \in Tasks |-> NoSearch]
    /\ sleeps = [t \in Tasks |-> <<>>]
    /\ statuses = [t \in Tasks |-> <<>>]
    /\ log = <<>>
    /\ sinceSend = NYAA_REQUEST_DELAY_MS
    /\ tooClose = FALSE
    /\ evicted = NoEntry

\* the steps of one search task after it has started
TaskStep(t) ==
    \/ AcquireSemaphore(t)
    \/ AcquireLock(t)
    \/ PaceDone(t)
    \/ BackoffDone(t)

----------------------------------------------------------------------------
(* MappingService (src/app/services/mapping.py).                           *)

\* settings.MAPPING_CACHE_TTL (config.py): one week, in seconds
MAPPING_CACHE_TTL == 604800

\* granularity of the wall clock in the mapping runs (half the TTL) and its
\* horizon, in steps
MapUtcStep == 302400

MapUtcSteps == 2

\* series ids: 1 is in the offline catalog, 2 is not
Ids == {1, 2}

MapCallers == {1, 2}

\* AnimeTitle; "" stands for None, which the code's "or" treats alike
Titles(romaji, english, native, synonyms) ==
    [romaji |-> romaji, english |-> english, native |-> native,
     synonyms |-> synonyms]

NoTitles == Titles("", "", "", {})

\* AnimeMapping; anilist_id 0 stands for None (anidb_id and mal_id are
\* carried along the same way and are left out); tvdb_id 0 is no mapping
Mapping(tvdb_id, anilist_id, titles, total_episodes, last_updated, user_override) ==
    [tvdb_id |-> tvdb_id, anilist_id |-> anilist_id, titles |-> titles,
     total_episodes |-> total_episodes, last_updated |-> last_updated,
     user_override |-> user_override]

NoMapping == Mapping(0, 0, NoTitles, 0, 0, FALSE)

\* MappingOverride; tvdb_id 0 is no override
Override(tvdb_id, anilist_id, custom_titles) ==
    [tvdb_id |-> tvdb_id, anilist_id |-> anilist_id,
     custom_titles |-> custom_titles]

NoOverride == Override(0, 0, {})

\* the overrides the WebUI may save: one with an anilist_id for the id
\* of the catalog, and for the other id one without and one that has
\* neither an anilist_id nor a custom title (custom_titles defaults to [])
OverrideChoices ==
    {Override(1, 7, {"Frieren S1"}), Override(2, 0, {"Frieren S1"}),
     Override(2, 0, {})}

\* AnimeMapping.get_search_titles: the titles that are not empty (the
\* code lists them without duplicates, romaji first)
get_search_titles(m) ==
    {t \in {m.titles.romaji, m.titles.english, m.titles.native}
              \cup m.titles.synonyms : t # ""}

\* an entry of the offline catalog (anime_db._tvdb_index)
Anime(title, synonyms, anilist_id) ==
    [title |-> title, synonyms |-> synonyms, anilist_id |-> anilist_id]

NoAnime == Anime("", {}, 0)

\* anime_db.get_by_tvdb_id
get_by_tvdb_id(id) ==
    IF id = 1 THEN Anime("Sousou no Frieren", {"Frieren"}, 7) ELSE NoAnime

\* what anilist_client.get_by_anilist_id may do: return the media, return
\* None (an HTTP error or an "errors" answer), raise (a body that is not
\* JSON)
AniListOutcomes == {"media", "none", "raises"}

\* anilist_client.extract_titles and get_episode_count of the media
MediaTitles ==
    Titles("Sousou no Frieren", "Frieren: Beyond Journey's End", "", {"Frieren"})

MediaEpisodes == 28

\* a or b of two optional strings
Or(a, b) == IF a # "" THEN a ELSE b

\* _merge_titles (lines 179-186)
merge_titles(base, additional) ==
    Titles(Or(base.romaji, additional.romaji),
           Or(base.english, additional.english),
           Or(base.native, additional.native),
           base.synonyms \cup additional.synonyms)

\* the titles and episode count after the enrichment of lines 128-139 and
\* 156-166: the media merged in, or the titles as they were when the
\* client returned None or raised
Enriched(titles, outcome) ==
    IF outcome = "media"
    THEN [titles |-> merge_titles(titles, MediaTitles), episodes |-> MediaEpisodes]
    ELSE [titles |-> titles, episodes |-> 0]

\* _create_mapping_from_override (lines 152-177); outcome is "skipped"
\* when the override has no anilist_id
create_mapping_from_override(ov, outcome, t) ==
    LET e == Enriched(Titles("", "", "", ov.custom_titles), outcome) IN
    Mapping(ov.tvdb_id, ov.anilist_id, e.titles, e.episodes, t, TRUE)

\* _create_mapping_from_anime_db (lines 123-150)
create_mapping_from_anime_db(id, anime, outcome, t) ==
    LET e == Enriched(Titles(anime.title, "", "", anime.synonyms), outcome) IN
    Mapping(id, anime.anilist_id, e.titles, e.episodes, t, FALSE)

\* a file: written whole ("ok"), never written ("absent"), or truncated by
\* a write that failed ("torn")
File(state, content) == [state |-> state, content |-> content]

NoMappings == [id \in Ids |-> NoMapping]

NoOverrides == [id \in Ids |-> NoOverride]

\* what a write of a file may do: succeed, fail before the file is opened
\* (mkdir), fail after open(..., 'w') has truncated it
WriteOutcomes == {"ok", "mkdir_fails", "dump_fails"}

\* the file after the write of lines 45-55 and 73-80
Written(file, content, empty, outcome) ==
    IF outcome = "ok" THEN File("ok", content)
    ELSE IF outcome = "mkdir_fails" THEN file
    ELSE File("torn", empty)

\* if tvdb_id in self.overrides (line 96)
HasOverrideNever(ovs, id) == FALSE

HasOverride(ovs, id) == ovs[id] # NoOverride

\* age < settings.MAPPING_CACHE_TTL (line 105)
FreshMappingInclusive(age) == age <= MAPPING_CACHE_TTL

FreshMapping(age) == age < MAPPING_CACHE_TTL

\* tvdb_id in self.cache and the cached mapping is still valid
\* (lines 101-105)
CachedFresh(cache, id, t) ==
    /\ cache[id] # NoMapping
    /\ FreshMapping(t - cache[id].last_updated)

\* a running get_mapping: its id, whether an override existed when it was
\* called, the override or catalog entry it read, the services consulted
Call(id, hadOverride, ov, anime, consulted) ==
    [id |-> id, hadOverride |-> hadOverride, ov |-> ov, anime |-> anime,
     consulted |-> consulted]

NoCall == Call(0, FALSE, NoOverride, NoAnime, {})

\* a get_mapping that returned: the call, the path it took, what it
\* returned
MapReturned(call, path, ret) ==
    [id |-> call.id, hadOverride |-> call.hadOverride,
     consulted |-> call.consulted, path |-> path, ret |-> ret]

NoMapReturn == MapReturned(NoCall, "", NoMapping)

\* _cache_mapping and _save_cache (lines 188-191 and 43-55)
CacheAndSave(mapping, outcome) ==
    /\ mapCache' = [mapCache EXCEPT ![mapping.tvdb_id] = mapping]
    /\ mappingsFile' = Written(mappingsFile, mapCache', NoMappings, outcome)

\* get_mapping up to its first suspension (lines 90-121): the override
\* first, then the cache, then the catalog
get_mapping(c, id, saved) ==
    LET had   == overrides[id] # NoOverride
        ov    == overrides[id]
        anime == get_by_tvdb_id(id)
    IN
    /\ mpc[c] = "idle"
    /\ IF HasOverride(overrides, id)
       THEN IF ov.anilist_id # 0
            THEN /\ mpc' = [mpc EXCEPT ![c] = "override"]
                 /\ mcall' = [mcall EXCEPT ![c] =
                                  Call(id, had, ov, NoAnime, {"anilist"})]
                 /\ UNCHANGED <<mlast, mapCache, mappingsFile>>
            ELSE /\ mlast' = MapReturned(Call(id, had, ov, NoAnime, {}), "override",
                                 create_mapping_from_override(ov, "skipped", utc))
                 /\ UNCHANGED <<mpc, mcall, mapCache, mappingsFile>>
       ELSE IF CachedFresh(mapCache, id, utc)
            THEN /\ mlast' = MapReturned(Call(id, had, NoOverride, NoAnime, {}),
                                         "cache", mapCache[id])
                 /\ UNCHANGED <<mpc, mcall, mapCache, mappingsFile>>
       ELSE IF anime # NoAnime
            THEN IF anime.anilist_id # 0
                 THEN /\ mpc' = [mpc EXCEPT ![c] = "catalog"]
                      /\ mcall' = [mcall EXCEPT ![c] =
                              Call(id, had, NoOverride, anime, {"catalog", "anilist"})]
                      /\ UNCHANGED <<mlast, mapCache, mappingsFile>>
                 ELSE LET m == create_mapping_from_anime_db(id, anime, "skipped", utc) IN
                      /\ CacheAndSave(m, saved)
                      /\ mlast' = MapReturned(
                              Call(id, had, NoOverride, anime, {"catalog"}),
                              "catalog", m)
                      /\ UNCHANGED <<mpc, mcall>>
       ELSE /\ mlast' = MapReturned(Call(id, had, NoOverride, NoAnime, {"catalog"}),
                                    "none", NoMapping)
            /\ UNCHANGED <<mpc, mcall, mapCache, mappingsFile>>
    /\ UNCHANGED <<overrides, overridesFile, utc, nyaaVars, apiVars, planVars,
                   callVars>>

\* the metadata client answers the call of line 160; the mapping built from
\* the override is returned
OverrideEnriched(c, outcome) ==
    /\ mpc[c] = "override"
    /\ mlast' = MapReturned(mcall[c], "override",
                    create_mapping_from_override(mcall[c].ov, outcome, utc))
    /\ mpc' = [mpc EXCEPT ![c] = "idle"]
    /\ mcall' = [mcall EXCEPT ![c] = NoCall]
    /\ UNCHANGED <<overrides, overridesFile, mapCache, mappingsFile, utc,
                   nyaaVars, apiVars, planVars, callVars>>

\* the metadata client answers the call of line 132; the mapping composed
\* from the catalog is cached, saved and returned (lines 113-116)
CatalogEnriched(c, outcome, saved) ==
    LET m == create_mapping_from_anime_db(mcall[c].id, mcall[c].anime,
                                          outcome, utc)
    IN
    /\ mpc[c] = "catalog"
    /\ CacheAndSave(m, saved)
    /\ mlast' = MapReturned(mcall[c], "catalog", m)
    /\ mpc' = [mpc EXCEPT ![c] = "idle"]
    /\ mcall' = [mcall EXCEPT ![c] = NoCall]
    /\ UNCHANGED <<overrides, overridesFile, utc, nyaaVars, apiVars, planVars,
                   callVars>>

\* save_override (lines 70-88): the override is set, the overrides file
\* written and, when the write has succeeded, the cached mapping of the id
\* dropped
save_override(ov, outcome) ==
    /\ overrides' = [overrides EXCEPT ![ov.tvdb_id] = ov]
    /\ overridesFile' = Written(overridesFile, overrides', NoOverrides, outcome)
    /\ mapCache' = IF outcome = "ok"
                   THEN [mapCache EXCEPT ![ov.tvdb_id] = NoMapping]
                   ELSE mapCache
    /\ UNCHANGED <<mappingsFile, mpc, mcall, mlast, utc, nyaaVars, apiVars,
                   planVars, callVars>>

\* a cache as _load_cache (lines 30-41) finds it in a mappings file written
\* at time 0, under a catalog that held both ids
LoadedMappings ==
    [id \in Ids |->
        Mapping(id, 7, Titles("Sousou no Frieren", "", "", {"Frieren"}), 0, 0, FALSE)]

\* MappingService.__init__ and initialize (lines 19-28): no mappings file,
\* or the file of an earlier run; no overrides file
InitMapping ==
    /\ \/ mapCache = NoMappings /\ mappingsFile = File("absent", NoMappings)
       \/ mapCache = LoadedMappings /\ mappingsFile = File("ok", LoadedMappings)
    /\ overrides = NoOverrides
    /\ overridesFile = File("absent", NoOverrides)
    /\ mpc = [c \in MapCallers |-> "idle"]
    /\ mcall = [c \in MapCallers |-> NoCall]
    /\ mlast = NoMapReturn

\* the mapping service at rest, in the runs of the other components
QuietMapping ==
    /\ mapCache = NoMappings
    /\ mappingsFile = File("absent", NoMappings)
    /\ overrides = NoOverrides
    /\ overridesFile = File("absent", NoOverrides)
    /\ mpc = [c \in MapCallers |-> "idle"]
    /\ mcall = [c \in MapCallers |-> NoCall]
    /\ mlast = NoMapReturn

----------------------------------------------------------------------------
(* The Torznab endpoint GET /api (src/app/api/torznab.py).  One request,   *)
(* one action per stretch of the handler between two awaited services.     *)

\* settings.API_KEY (config.py)
API_KEY == "your-secret-api-key-here"

\* an absent query parameter: None
NoStr == "<None>"

NoInt == -1

\* values of the query parameters; "rss" is a query type the endpoint does
\* not know, "²" a digit that is not a decimal
QueryTypes == {"caps", "search", "tvsearch", "rss"}

ApiKeys == {API_KEY, "wrong", NoStr}

QueryStrings == {NoStr, "", "1", "0", "²", "frieren"}

\* limit: Optional[int] = Query(100) (line 39)
DEFAULT_LIMIT == 100

\* the limit of the request: absent, small, above the default
Requests ==
    [t : QueryTypes, q : QueryStrings, tvdbid : {NoInt, 1},
     season : {NoInt, 0, 1}, ep : {NoInt, 1}, apikey : ApiKeys,
     limit : {NoInt, 1, DEFAULT_LIMIT + 1}, offset : {0, 1}]

\* the value the handler receives for limit
LimitOf(limit) == IF limit = NoInt THEN DEFAULT_LIMIT ELSE limit

NoRequest ==
    [t |-> "", q |-> NoStr, tvdbid |-> NoInt, season |-> NoInt,
     ep |-> NoInt, apikey |-> NoStr, limit |-> 0, offset |-> 0]

\* the methods SonarrClient defines (src/app/services/sonarr.py)
SonarrMethods ==
    {"configure", "is_configured", "get_series_by_tvdb_id",
     "get_episodes_by_series_id", "get_episode_by_absolute_number",
     "get_episode_by_season_episode",
     "get_wanted_episode_by_episode_number", "clear_cache"}

\* an episode as Sonarr's /api/v3/episode lists it
SonarrEpisode(season, episode, absolute, monitored, hasFile) ==
    [seasonNumber |-> season, episodeNumber |-> episode,
     absoluteEpisodeNumber |-> absolute, monitored |-> monitored,
     hasFile |-> hasFile]

\* what Sonarr may hold for the series: nothing, or three seasons whose
\* first episodes are on disk (season 1) and wanted (seasons 2 and 3)
SonarrEpisodeChoices ==
    { <<>>,
      << SonarrEpisode(1, 1, 1, TRUE, TRUE), SonarrEpisode(2, 1, 14, TRUE, FALSE),
         SonarrEpisode(3, 1, 27, TRUE, FALSE) >> }

\* a response: its status, what it carries, the number of items of the
\* channel
Response(status, kind, items) ==
    [status |-> status, kind |-> kind, items |-> items]

NoResponse == Response(0, "", 0)

\* handle_caps (lines 99-116)
Caps == Response(200, "caps", 0)

\* Response(content=rss_xml) of create_torznab_rss (lines 679-734)
Rss(results) == Response(200, "rss", Len(results))

\* create_empty_rss (lines 737-740)
create_empty_rss == Rss(<<>>)

\* raise HTTPException(status_code=...)
HttpError(status) == Response(status, "error", 0)

\* an exception that leaves the handler: the framework answers 500
Unhandled == Response(500, "error", 0)

\* a search result as far as the handler looks at it: its guid, its
\* seeders, whether _parse_date gave its pub_date a time zone (a parsed
\* "%z" date has one, the datetime.utcnow() fallback has none), whether
\* filter_results_by_query keeps it
Result(guid, seeders, aware, relevant) ==
    [guid |-> guid, seeders |-> seeders, aware |-> aware, relevant |-> relevant]

\* what the search client may do: return results, or raise an exception it
\* does not catch itself (search catches httpx.HTTPError and ParseError
\* only; float() of a malformed size in _parse_size raises ValueError)
SearchOutcome(raises, results) == [raises |-> raises, results |-> results]

\* more results than the default limit, all kept by the filter, most
\* seeders first
ManyResults ==
    [i \in 1..(DEFAULT_LIMIT + 1) |->
        Result(ToString(i), DEFAULT_LIMIT + i, TRUE, TRUE)]

SearchOutcomes ==
    { SearchOutcome(TRUE, <<>>),
      SearchOutcome(FALSE, ManyResults),
      SearchOutcome(FALSE, <<>>),
      SearchOutcome(FALSE, <<Result("g1", 9, TRUE, TRUE), Result("g2", 5, TRUE, FALSE)>>),
      SearchOutcome(FALSE, <<Result("g1", 5, TRUE, TRUE), Result("g2", 5, FALSE, TRUE)>>) }

\* what get_mapping may return to the handler: None, a mapping whose
\* get_search_titles() is empty, a mapping with titles
MappingOutcomes == {"none", "notitles", "titles"}

\* filter_results_by_query
Relevant(rs) == SelectSeq(rs, LAMBDA r : r.relevant)

\* sort(key=lambda x: (x.seeders, x.pub_date)) raises TypeError when it
\* has to order two results with equal seeders by dates of which one has a
\* time zone and the other has none
SortRaises(rs) ==
    \E i, j \in 1..Len(rs) :
        i < j /\ rs[i].seeders = rs[j].seeders /\ rs[i].aware # rs[j].aware

\* what the handlers of the plain and the special searches make of the
\* results of each outcome before they paginate: the relevant ones, sorted
\* by (seeders, pub_date), unless the sort raises
Sifted ==
    [o \in SearchOutcomes |->
        LET kept == Relevant(o.results)
        IN [raises |-> SortRaises(kept), ordered |-> SortBySeeders(kept)]]

\* results[offset : offset + limit]
Paginate(rs, offset, limit) ==
    IF offset >= Len(rs) THEN <<>>
    ELSE SubSeq(rs, offset + 1,
                IF offset + limit > Len(rs) THEN Len(rs) ELSE offset + limit)

\* str.isdigit(), int() raising ValueError, and int() of the query strings
IsDigit(q) == q \in {"1", "0", "²"}

IntRaises(q) == q = "²"

IntOf(q) == IF q = "1" THEN 1 ELSE 0

\* int(query.strip()) > 0 (line 192)
NonNegative(n) == n >= 0

Positive(n) == n > 0

\* the truth value of an optional string
Truthy(q) == q # NoStr /\ q # ""

\* apikey != settings.API_KEY (line 55)
AuthorizedAlways(apikey) == TRUE

Authorized(apikey) == apikey = API_KEY

\* mapping is None (lines 132 and 178)
MappingMissingNever(m) == FALSE

MappingMissing(m) == m = "none"

\* the handlers that wrap their search in try/except Exception
Guarded(h) == h \in {"handle_search", "handle_tvsearch"}

\* the request is answered
Answer(r) ==
    /\ resp' = r
    /\ apc' = "done"

\* torznab_api (lines 31-96) up to the first awaited service
Receive(r) ==
    /\ apc = "idle"
    /\ req' = r
    /\ IF r.t = "caps"
       THEN Answer(Caps) /\ handler' = "handle_caps"
       ELSE IF ~Authorized(r.apikey)
       THEN Answer(HttpError(403)) /\ handler' = handler
       ELSE IF r.t = "tvsearch"
       THEN IF r.tvdbid = NoInt
            THEN /\ handler' = "handle_search"
                 /\ apc' = "search"
                 /\ resp' = resp
            ELSE IF r.season = NoInt \/ r.ep = NoInt
            THEN /\ handler' = "handle_tvsearch_special"
                 /\ apc' = "mapping"
                 /\ resp' = resp
            ELSE /\ handler' = "handle_tvsearch"
                 /\ apc' = "mapping"
                 /\ resp' = resp
       ELSE IF r.t = "search"
       THEN IF r.q = NoStr
            THEN Answer(create_empty_rss) /\ handler' = handler
            ELSE /\ handler' = "handle_search"
                 /\ apc' = "search"
                 /\ resp' = resp
       ELSE Answer(HttpError(400)) /\ handler' = handler
    /\ UNCHANGED <<sonarrConfigured, sonarrEpisodes, apiMapping, effects,
                   dispatched, utc, nyaaVars, mapVars, planVars, callVars>>

\* a call of _search_for_absolute_episodes or of _search_for_special: the
\* function and the episode numbers it is given (none for episode_num =
\* None)
Dispatched(fn, episodes) == [fn |-> fn, episodes |-> episodes]

\* handle_tvsearch_special calls one of the two searches, which runs up to
\* its first await of the search client
Dispatch(fn, episodes) ==
    /\ handler' = fn
    /\ dispatched' = Append(dispatched, Dispatched(fn, episodes))
    /\ apc' = "search"
    /\ resp' = resp

\* handle_tvsearch_special after the mapping (lines 182-278), up to the
\* search it dispatches to.  The lookup of line 203 names a method that
\* SonarrClient does not define: when Sonarr is configured the attribute
\* error leaves the handler, and lines 207-266 (the request waiting in
\* "pvr" for Sonarr's answer) are never reached.
SpecialDispatch(q) ==
    IF Truthy(q) /\ IsDigit(q)
    THEN IF IntRaises(q)
         THEN Answer(Unhandled) /\ UNCHANGED <<handler, dispatched>>
         ELSE IF Positive(IntOf(q))
         THEN IF sonarrConfigured
              THEN IF "get_wanted_episodes_by_episode_number" \in SonarrMethods
                   THEN /\ apc' = "pvr"
                        /\ UNCHANGED <<resp, handler, dispatched>>
                   ELSE Answer(Unhandled) /\ UNCHANGED <<handler, dispatched>>
              ELSE Dispatch("_search_for_absolute_episodes", <<IntOf(q)>>)
         ELSE Dispatch("_search_for_special", <<>>)
    ELSE Dispatch("_search_for_special", <<>>)

\* mapping_service.get_mapping returns to handle_tvsearch (lines 130-135)
\* or handle_tvsearch_special (lines 176-186)
MappingReturns(m) ==
    /\ apc = "mapping"
    /\ apiMapping' = m
    /\ effects' = Append(effects, "mapping")
    /\ IF MappingMissing(m)
       THEN Answer(create_empty_rss) /\ UNCHANGED <<handler, dispatched>>
       ELSE IF handler = "handle_tvsearch"
       THEN /\ apc' = "search"
            /\ UNCHANGED <<resp, handler, dispatched>>
       ELSE IF m = "notitles"
       THEN Answer(create_empty_rss) /\ UNCHANGED <<handler, dispatched>>
       ELSE SpecialDispatch(req.q)
    /\ UNCHANGED <<sonarrConfigured, sonarrEpisodes, req, utc, nyaaVars, mapVars,
                   planVars, callVars>>

\* the search returns to the handler, which filters, sorts, paginates and
\* renders: handle_tvsearch (lines 138-156), handle_search (lines 505-592),
\* _search_for_absolute_episodes (lines 377-397), _search_for_special
\* (lines 472-491)
SearchReturns(o) ==
    LET raised == \/ o.raises
                  \/ handler # "handle_tvsearch" /\ Sifted[o].raises
        \* handle_tvsearch paginates the results in the order the search
        \* gave them; the others filter and order them first
        ordered == IF handler = "handle_tvsearch" THEN o.results
                   ELSE Sifted[o].ordered
        page   == Paginate(ordered, req.offset, LimitOf(req.limit))
    IN
    /\ apc = "search"
    /\ effects' = Append(effects, "indexer")
    /\ IF raised
       THEN IF Guarded(handler) THEN Answer(create_empty_rss)
            ELSE Answer(Unhandled)
       ELSE Answer(Rss(page))
    /\ UNCHANGED <<sonarrConfigured, sonarrEpisodes, req, handler, apiMapping,
                   dispatched, utc, nyaaVars, mapVars, planVars, callVars>>

\* no request yet; Sonarr is configured when SONARR_URL and
\* SONARR_API_KEY are set
InitApi ==
    /\ sonarrConfigured \in BOOLEAN
    /\ sonarrEpisodes \in SonarrEpisodeChoices
    /\ dispatched = <<>>
    /\ apc = "idle"
    /\ req = NoRequest
    /\ handler = ""
    /\ apiMapping = ""
    /\ resp = NoResponse
    /\ effects = <<>>

\* the endpoint at rest, in the runs of the other components
QuietApi ==
    /\ sonarrConfigured = FALSE
    /\ sonarrEpisodes = <<>>
    /\ dispatched = <<>>
    /\ apc = "idle"
    /\ req = NoRequest
    /\ handler = ""
    /\ apiMapping = ""
    /\ resp = NoResponse
    /\ effects = <<>>

\* the indexer client at rest, in the runs of the other components
QuietNyaa ==
    /\ pc = [t \in Tasks |-> "idle"]
    /\ permits = NYAA_MAX_CONCURRENT_REQUESTS
    /\ lockHeld = 0
    /\ sinceLast = NYAA_REQUEST_DELAY_MS
    /\ searchCache = <<>>
    /\ sleep = [t \in Tasks |-> 0]
    /\ attempt = [t \in Tasks |-> 0]
    /\ cur = [t \in Tasks |-> NoSearch]
    /\ sleeps = [t \in Tasks |-> <<>>]
    /\ statuses = [t \in Tasks |-> <<>>]
    /\ log = <<>>
    /\ sinceSend = NYAA_REQUEST_DELAY_MS
    /\ tooClose = FALSE
    /\ evicted = NoEntry

----------------------------------------------------------------------------
(* QueryService.search_anime (src/app/services/query.py) and               *)
(* EpisodeTranslator.to_absolute (src/app/services/episode.py).  A title   *)
(* or a query is the sequence of its words, which single spaces separate;  *)
(* the empty sequence is the empty string and, like it, stands for None    *)
(* where the code tests the truth value.                                   *)

\* the AnimeMapping as far as search_anime and to_absolute read it;
\* synonyms is a list
PlanMapping(romaji, english, native, synonyms, user_override, total_episodes, season_info) ==
    [romaji |-> romaji, english |-> english, native |-> native,
     synonyms |-> synonyms, user_override |-> user_override,
     total_episodes |-> total_episodes, season_info |-> season_info]

\* an entry of season_info: {"season": s, "episodes": n}
SeasonData(s, n) == [season |-> s, episodes |-> n]

\* the titles a mapping may carry: none, one, or four variants of which a
\* synonym repeats the english title
PlanTitleChoices ==
    { [romaji |-> <<>>, english |-> <<>>, native |-> <<>>, synonyms |-> <<>>],
      [romaji |-> <<"Frieren">>, english |-> <<>>, native |-> <<>>,
       synonyms |-> <<>>],
      [romaji |-> <<"Sousou", "no", "Frieren">>, english |-> <<"Frieren">>,
       native |-> <<"Sousou", "no", "Furiiren">>,
       synonyms |-> << <<"Frieren">>, <<"Frieren", "Beyond">> >>] }

\* season_info is empty in every mapping the service composes; a mappings
\* file may carry one, in any order
SeasonInfoChoices ==
    { <<>>, <<SeasonData(2, 13), SeasonData(1, 12)>> }

PlanMappings ==
    { PlanMapping(t.romaji, t.english, t.native, t.synonyms, uo, te, si) :
          t \in PlanTitleChoices, uo \in BOOLEAN, te \in {0, 28},
          si \in SeasonInfoChoices }

\* mapping_service.overrides.get(tvdb_id): no override, or one whose
\* season_episode_overrides gives S02E01 (the key f"S{season:02d}E{episode:02d}"
\* is modelled by the pair)
NoPlanOverride == [exists |-> FALSE, season_episode_overrides |-> <<>>]

PlanOverrides ==
    { NoPlanOverride,
      [exists |-> TRUE,
       season_episode_overrides |-> << [key |-> <<2, 1>>, absolute |-> 40] >>] }

PlanSeasons == {0, 1, 2, 3}

PlanEpisodes == {1, 14}

\* what thexem.tvdb_to_anidb_episode may do: return a number, return None,
\* raise
XemOutcomes ==
    { [kind |-> "value", value |-> 25], [kind |-> "none", value |-> 0],
      [kind |-> "raises", value |-> 0] }

\* the service has not been asked
NoXem == [kind |-> "", value |-> 0]

\* sorted(season_info, key=lambda x: x.get('season', 0)): a stable
\* ascending sort
RECURSIVE InsertBySeason(_, _)
InsertBySeason(s, x) ==
    IF s = <<>> THEN <<x>>
    ELSE IF Head(s).season <= x.season
         THEN <<Head(s)>> \o InsertBySeason(Tail(s), x)
         ELSE <<x>> \o s

RECURSIVE SortBySeason(_)
SortBySeason(s) ==
    IF s = <<>> THEN <<>>
    ELSE InsertBySeason(SortBySeason(SubSeq(s, 1, Len(s) - 1)), s[Len(s)])

\* the loop of _calculate_from_season_info over the sorted list, absolute
\* being the sum so far; NoInt is None
RECURSIVE SeasonLoop(_, _, _, _)
SeasonLoop(sorted, target_season, target_episode, absolute) ==
    IF sorted = <<>> THEN NoInt
    ELSE IF Head(sorted).season < target_season
         THEN SeasonLoop(Tail(sorted), target_season, target_episode,
                         absolute + Head(sorted).episodes)
    ELSE IF Head(sorted).season = target_season
         THEN IF target_episode <= Head(sorted).episodes
              THEN absolute + target_episode
              ELSE NoInt
    ELSE NoInt

\* _calculate_from_season_info (episode.py, lines 86-117)
calculate_from_season_info(season_info, target_season, target_episode) ==
    SeasonLoop(SortBySeason(season_info), target_season, target_episode, 0)

\* override_key in override.season_episode_overrides, and the value
OverrideHas(ov, season, episode) ==
    \E i \in 1..Len(ov.season_episode_overrides) :
        ov.season_episode_overrides[i].key = <<season, episode>>

OverrideAbsolute(ov, season, episode) ==
    LET i == CHOOSE j \in 1..Len(ov.season_episode_overrides) :
                 ov.season_episode_overrides[j].key = <<season, episode>>
    IN ov.season_episode_overrides[i].absolute

\* to_absolute never returning at the override check
OverrideIgnored(m, ov, season, episode) == FALSE

\* to_absolute returns at the override check (lines 40-47), without calling
\* the episode-map service
OverrideReturns(m, ov, season, episode) ==
    m.user_override /\ ov.exists /\ OverrideHas(ov, season, episode)

\* the estimate of lines 70-84: 12 episodes a season
EstimateFlat(m, season, episode) ==
    IF season = 1 THEN episode ELSE (season - 1) * 12 + episode

Estimate(m, season, episode) ==
    IF season = 1 THEN episode
    ELSE IF m.total_episodes > 0 THEN (season - 1) * 12 + episode
    ELSE episode

\* to_absolute after the episode-map service has answered (lines 57-84)
AfterXem(m, season, episode, xem) ==
    LET fromInfo == IF m.season_info # <<>>
                    THEN calculate_from_season_info(m.season_info, season, episode)
                    ELSE NoInt
    IN IF xem.kind = "value" /\ xem.value # 0 THEN xem.value
       ELSE IF fromInfo # NoInt /\ fromInfo # 0 THEN fromInfo
       ELSE Estimate(m, season, episode)

\* to_absolute (episode.py, lines 17-84)
to_absolute(m, ov, season, episode, xem) ==
    IF OverrideReturns(m, ov, season, episode)
    THEN OverrideAbsolute(ov, season, episode)
    ELSE AfterXem(m, season, episode, xem)

\* the elements of s that are not in seen nor earlier in s, in order
RECURSIVE Unique(_, _)
Unique(s, seen) ==
    IF s = <<>> THEN <<>>
    ELSE IF Head(s) \in seen THEN Unique(Tail(s), seen)
    ELSE <<Head(s)>> \o Unique(Tail(s), seen \cup {Head(s)})

Range(s) == {s[i] : i \in 1..Len(s)}

\* QueryService._get_search_titles (query.py, lines 268-288): romaji,
\* english, the first three synonyms not yet listed, native if not yet
\* listed
QueryTitles(m) ==
    LET first  == (IF m.romaji # <<>> THEN <<m.romaji>> ELSE <<>>)
                  \o (IF m.english # <<>> THEN <<m.english>> ELSE <<>>)
        syns   == Unique(SelectSeq(Take(m.synonyms, 3), LAMBDA t : t # <<>>),
                         Range(first))
        listed == first \o syns
    IN listed \o (IF m.native # <<>> /\ m.native \notin Range(listed)
                  THEN <<m.native>> ELSE <<>>)

\* the queries _build_queries makes for one title; ToString is the
\* decimal formatting of the f-string
TitleQueries(title, absolute_episode, is_special) ==
    IF is_special
    THEN << title \o <<"OVA">>, title \o <<"Special">>,
            title \o <<"OVA", ToString(absolute_episode)>>,
            title \o <<"Special", ToString(absolute_episode)>>,
            title \o <<"Movie">> >>
    ELSE << title \o <<ToString(absolute_episode)>> >>

RECURSIVE AllTitleQueries(_, _, _)
AllTitleQueries(titles, absolute_episode, is_special) ==
    IF titles = <<>> THEN <<>>
    ELSE TitleQueries(Head(titles), absolute_episode, is_special)
             \o AllTitleQueries(Tail(titles), absolute_episode, is_special)

\* QueryService._build_queries (query.py, lines 290-324)
build_queries(titles, absolute_episode, is_special) ==
    Unique(AllTitleQueries(titles, absolute_episode, is_special), {})

\* search_anime once to_absolute has returned (query.py, lines 228-250):
\* no title, nothing is searched; otherwise _execute_queries starts one
\* search_client.search per query and awaits them all
PlanQueries(absolute) ==
    /\ pabs' = absolute
    /\ IF QueryTitles(pin.mapping) = <<>>
       THEN ppc' = "done" /\ psent' = psent
       ELSE /\ psent' = build_queries(QueryTitles(pin.mapping), absolute,
                                      pin.season = 0)
            /\ ppc' = "search"

\* search_anime is called (query.py, line 208); to_absolute returns at once
\* from the override, or awaits the episode-map service
search_anime ==
    /\ ppc = "idle"
    /\ IF OverrideReturns(pin.mapping, pin.override, pin.season, pin.episode)
       THEN PlanQueries(to_absolute(pin.mapping, pin.override, pin.season,
                                    pin.episode, NoXem))
       ELSE ppc' = "xem" /\ UNCHANGED <<pabs, psent>>
    /\ UNCHANGED <<pin, pxem, utc, nyaaVars, mapVars, apiVars,
                   callVars>>

\* the episode-map service answers
XemReturns(xem) ==
    /\ ppc = "xem"
    /\ pxem' = xem
    /\ PlanQueries(to_absolute(pin.mapping, pin.override, pin.season,
                               pin.episode, xem))
    /\ UNCHANGED <<pin, utc, nyaaVars, mapVars, apiVars,
                   callVars>>

\* the searches have all returned (query.py, lines 252-266)
SearchesReturn ==
    /\ ppc = "search"
    /\ ppc' = "done"
    /\ UNCHANGED <<pin, pxem, pabs, psent, utc, nyaaVars, mapVars, apiVars,
                   callVars>>

NoPlan ==
    [mapping |-> PlanMapping(<<>>, <<>>, <<>>, <<>>, FALSE, 0, <<>>),
     override |-> NoPlanOverride, season |-> 0, episode |-> 0]

\* a call of search_anime with any mapping, season and episode
InitPlan ==
    /\ pin \in [mapping : PlanMappings, override : PlanOverrides,
                season : PlanSeasons, episode : PlanEpisodes]
    /\ ppc = "idle"
    /\ pxem = NoXem
    /\ pabs = NoInt
    /\ psent = <<>>

\* the query service at rest, in the runs of the other components
QuietPlan ==
    /\ pin = NoPlan
    /\ ppc = "idle"
    /\ pxem = NoXem
    /\ pabs = NoInt
    /\ psent = <<>>

----------------------------------------------------------------------------
(* handle_search (src/app/api/torznab.py): the season-zero detection on    *)
(* the query text.  A query is the sequence of its characters.             *)

\* the longest query
MaxQueryLen == 5

\* the characters of the queries: a letter, the letter of a season
\* indicator, the space, two digits
Alphabet == {"a", "S", " ", "0", "1"}

QueryTexts == UNION {[1..n -> Alphabet] : n \in 0..MaxQueryLen}

\* \s, \d and \w on the characters of the alphabet
Space(c) == c = " "

Digit(c) == c \in {"0", "1"}

Word(c) == c \in {"a", "S", "0", "1"}

\* re.search(r"\s+0<d>$", query) with <d> one of the digits ds; no query
\* holds a newline, so $ is the end of the text
EndsWithZero(query, ds) ==
    /\ Len(query) >= 3
    /\ Space(query[Len(query) - 2])
    /\ query[Len(query) - 1] = "0"
    /\ query[Len(query)] \in ds

\* re.search(r"\bS\d+\b", query, re.IGNORECASE) (line 661)
SeasonIndicator(query) ==
    \E i \in 1..Len(query) :
        /\ i = 1 \/ ~Word(query[i - 1])
        /\ query[i] \in {"S", "s"}
        /\ \E j \in (i + 1)..Len(query) :
               /\ \A k \in (i + 1)..j : Digit(query[k])
               /\ j = Len(query) \/ ~Word(query[j + 1])

\* the detection with the season indicator looked at first
SeasonZeroUnlessIndicator(query) ==
    IF SeasonIndicator(query) THEN FALSE
    ELSE EndsWithZero(query, {"0"})

\* _is_season_zero_query (lines 637-666)
is_season_zero_query(query) ==
    IF EndsWithZero(query, {"0"}) THEN TRUE
    ELSE IF SeasonIndicator(query) THEN FALSE
    ELSE FALSE

\* str.strip() on the left and on the right
RECURSIVE LStrip(_)
LStrip(s) ==
    IF s # <<>> /\ Space(Head(s)) THEN LStrip(Tail(s)) ELSE s

RECURSIVE RStrip(_)
RStrip(s) ==
    IF s # <<>> /\ Space(s[Len(s)]) THEN RStrip(SubSeq(s, 1, Len(s) - 1))
    ELSE s

\* where the leftmost match of \s+0\d$ starts: the first space of the run
\* of spaces that ends at position i
RECURSIVE RunStart(_, _)
RunStart(query, i) ==
    IF i > 1 /\ Space(query[i - 1]) THEN RunStart(query, i - 1) ELSE i

\* _strip_season_zero_suffix (lines 669-676):
\* re.sub(r"\s+0\d$", "", query).strip()
strip_season_zero_suffix(query) ==
    LET cut == IF EndsWithZero(query, {"0", "1"})
               THEN SubSeq(query, 1, RunStart(query, Len(query) - 2) - 1)
               ELSE query
    IN LStrip(RStrip(cut))

\* _parse_concatenated_query (lines 595-607): a query of less than 50
\* characters, as every query here is, comes back alone and as it is
parse_concatenated_query(query) == <<query>>

\* the keywords of a special search (line 521)
special_keywords == <<"OVA", "Special", "Movie">>

\* what handle_search gives the search client: search_multi with the
\* keywords for a special (lines 518-541), search without for the others
\* (line 575)
Searched(is_special, query, base_query) ==
    [is_special |-> is_special, query |-> query, base_query |-> base_query,
     keywords |-> IF is_special THEN special_keywords ELSE <<>>]

NoSniff == Searched(FALSE, <<>>, <<>>)

\* handle_search (lines 494-541 and 572-575) up to its first search
handle_search(query, is_special) ==
    LET sniffed    == ~is_special /\ is_season_zero_query(query)
        special    == is_special \/ sniffed
        text       == IF sniffed THEN strip_season_zero_suffix(query)
                      ELSE query
        search_queries == parse_concatenated_query(text)
        base_query == IF search_queries # <<>> THEN search_queries[1]
                      ELSE text
    IN
    /\ hpc = "idle"
    /\ hpc' = "search"
    /\ hquery' = query
    /\ hflag' = is_special
    /\ hsearch' = Searched(special, text, base_query)
    /\ UNCHANGED <<serviceVars, dedupVars, comboVars,
                 gatherVars, sharedVars, lateVars>>

\* no call of handle_search yet
InitSniff ==
    /\ hpc = "idle"
    /\ hquery = <<>>
    /\ hflag = FALSE
    /\ hsearch = NoSniff

\* handle_search at rest, in the runs of the other components
QuietSniff == InitSniff

----------------------------------------------------------------------------
(* QueryService._deduplicate_results (src/app/services/query.py) and the   *)
(* loop over seen_guids with which the handlers of torznab.py merge.  A    *)
(* title is the sequence of its words and tags.                            *)

\* the longest list of results
MaxResults == 3

\* a SearchResult as far as the deduplication reads it; aware: its
\* pub_date has a time zone (NyaaClient._parse_date) or has none (its
\* datetime.utcnow() fallback)
SearchResult(guid, title, seeders, pub_date, aware) ==
    [guid |-> guid, title |-> title, seeders |-> seeders,
     pub_date |-> pub_date, aware |-> aware]

\* one release under three guids, with more seeders, with a newer date,
\* under a title that differs by case and tags only, and another release
\* with the same seeders and date; one date without time zone
DedupResults ==
    { SearchResult("g1", <<"Frieren", "01", "1080p">>, 5, 1, TRUE),
      SearchResult("g1", <<"Frieren", "01", "1080p">>, 9, 1, TRUE),
      SearchResult("g1", <<"Frieren", "01", "1080p">>, 5, 2, TRUE),
      SearchResult("g2", <<"[", "frieren", "]", "01", "720p">>, 5, 1, TRUE),
      SearchResult("g2", <<"[", "frieren", "]", "01", "720p">>, 9, 2, TRUE),
      SearchResult("g1", <<"Frieren", "02">>, 9, 1, TRUE),
      SearchResult("g3", <<"Frieren", "02">>, 5, 1, TRUE),
      SearchResult("g3", <<"Frieren", "02">>, 7, 2, TRUE),
      SearchResult("g3", <<"Frieren", "02">>, 5, 1, FALSE) }

ResultLists == UNION {[1..n -> DedupResults] : n \in 0..MaxResults}

\* a function's outcome: it returns a list or raises
Returns(results) == [raises |-> FALSE, results |-> results]

Raises == [raises |-> TRUE, results |-> <<>>]

\* ordering two pub_dates raises TypeError when one has a time zone and
\* the other has none
DateRaises(a, b) == a.aware # b.aware

\* (a.seeders, a.pub_date) > (b.seeders, b.pub_date)
KeyGreater(a, b) ==
    \/ a.seeders > b.seeders
    \/ a.seeders = b.seeders /\ a.pub_date > b.pub_date

\* the tuples are ordered by their dates when the seeders are equal
KeyRaises(a, b) == a.seeders = b.seeders /\ DateRaises(a, b)

\* _is_better_result never preferring the new result
is_better_result_never(new, existing) == FALSE

\* _is_better_result (lines 378-387)
is_better_result(new, existing) ==
    IF new.seeders > existing.seeders THEN TRUE
    ELSE IF new.seeders < existing.seeders THEN FALSE
    ELSE new.pub_date > existing.pub_date

\* str.lower() on the words of the titles
Lower(word) == IF word = "Frieren" THEN "frieren" ELSE word

\* patterns_to_remove (lines 425-450), those the titles carry
patterns_to_remove == {"1080p", "720p", "[", "]"}

\* _normalize_title (lines 416-458): lower case, the patterns replaced by
\* spaces, the spaces collapsed
RECURSIVE normalize_title(_)
normalize_title(title) ==
    IF title = <<>> THEN <<>>
    ELSE IF Lower(Head(title)) \in patterns_to_remove
         THEN normalize_title(Tail(title))
         ELSE <<Lower(Head(title))>> \o normalize_title(Tail(title))

\* where the guid stands in unique_results, 0 if it does not
GuidIndex(unique, guid) ==
    IF \E i \in 1..Len(unique) : unique[i].guid = guid
    THEN CHOOSE i \in 1..Len(unique) : unique[i].guid = guid
    ELSE 0

\* the first pass (lines 355-367): a dict keeps the place of the first
\* result of each guid and the best of them
RECURSIVE FirstPass(_, _)
FirstPass(results, unique) ==
    IF results = <<>> THEN Returns(unique)
    ELSE LET result == Head(results)
             i      == GuidIndex(unique, result.guid)
         IN IF i = 0 THEN FirstPass(Tail(results), Append(unique, result))
            ELSE IF KeyRaises(result, unique[i]) THEN Raises
            ELSE IF is_better_result(result, unique[i])
                 THEN FirstPass(Tail(results), [unique EXCEPT ![i] = result])
                 ELSE FirstPass(Tail(results), unique)

\* max(group, key=lambda x: (x.seeders, x.pub_date)): the first of the
\* greatest
RECURSIVE MaxByKey(_, _)
MaxByKey(group, best) ==
    IF group = <<>> THEN Returns(<<best>>)
    ELSE IF KeyRaises(Head(group), best) THEN Raises
    ELSE IF KeyGreater(Head(group), best) THEN MaxByKey(Tail(group), Head(group))
    ELSE MaxByKey(Tail(group), best)

\* the normalized titles in the order of their first result
NormalizedTitles(results) ==
    Unique([i \in 1..Len(results) |-> normalize_title(results[i].title)], {})

\* the best of each group, in the order of the groups
RECURSIVE BestOfGroups(_, _)
BestOfGroups(results, normalized) ==
    IF normalized = <<>> THEN Returns(<<>>)
    ELSE LET group == SelectSeq(results,
                          LAMBDA r : normalize_title(r.title) = Head(normalized))
             best  == MaxByKey(Tail(group), Head(group))
             rest  == BestOfGroups(results, Tail(normalized))
         IN IF best.raises \/ rest.raises THEN Raises
            ELSE Returns(best.results \o rest.results)

\* _fuzzy_deduplicate keeping every result
FuzzyKeepAll(results) == Returns(results)

\* _fuzzy_deduplicate (lines 389-414)
fuzzy_deduplicate(results) ==
    IF Len(results) <= 1 THEN Returns(results)
    ELSE BestOfGroups(results, NormalizedTitles(results))

\* sort(key=lambda x: (x.seeders, x.pub_date), reverse=True): stable, equal
\* keys keep their order
RECURSIVE InsertByKey(_, _)
InsertByKey(s, x) ==
    IF s = <<>> THEN <<x>>
    ELSE IF KeyGreater(x, Head(s)) THEN <<x>> \o s
    ELSE <<Head(s)>> \o InsertByKey(Tail(s), x)

RECURSIVE SortByKey(_)
SortByKey(s) ==
    IF s = <<>> THEN <<>>
    ELSE InsertByKey(SortByKey(SubSeq(s, 1, Len(s) - 1)), s[Len(s)])

\* _deduplicate_results (lines 349-376)
deduplicate_results(results) ==
    LET unique == FirstPass(results, <<>>)
        final  == IF unique.raises THEN Raises
                  ELSE fuzzy_deduplicate(unique.results)
    IN IF final.raises \/ SortRaises(final.results) THEN Raises
       ELSE Returns(SortByKey(final.results))

\* the handlers' merge (torznab.py, lines 377-383, 472-478, 556-561): the
\* first result of each guid
RECURSIVE KeepFirst(_, _)
KeepFirst(all_results, seen_guids) ==
    IF all_results = <<>> THEN <<>>
    ELSE IF Head(all_results).guid \in seen_guids
         THEN KeepFirst(Tail(all_results), seen_guids)
         ELSE <<Head(all_results)>>
                  \o KeepFirst(Tail(all_results),
                               seen_guids \cup {Head(all_results).guid})

\* search_anime deduplicates its results (query.py, lines 258-264)
Deduplicate(results) ==
    /\ dpc = "idle"
    /\ dpc' = "once"
    /\ dxs' = results
    /\ dout' = deduplicate_results(results)
    /\ UNCHANGED <<dout2, dmerged, serviceVars, sniffVars, comboVars,
                 gatherVars, sharedVars, lateVars>>

\* _deduplicate_results is given its own output
DeduplicateAgain ==
    /\ dpc = "once"
    /\ ~dout.raises
    /\ dpc' = "twice"
    /\ dout2' = deduplicate_results(dout.results)
    /\ UNCHANGED <<dxs, dout, dmerged, serviceVars, sniffVars, comboVars,
                 gatherVars, sharedVars, lateVars>>

\* a handler merges the results of its searches (torznab.py, lines
\* 377-383)
MergeByGuid(all_results) ==
    /\ dpc = "idle"
    /\ dpc' = "merged"
    /\ dxs' = all_results
    /\ dmerged' = KeepFirst(all_results, {})
    /\ UNCHANGED <<dout, dout2, serviceVars, sniffVars, comboVars,
                 gatherVars, sharedVars, lateVars>>

\* nothing deduplicated yet
InitDedup ==
    /\ dpc = "idle"
    /\ dxs = <<>>
    /\ dout = Returns(<<>>)
    /\ dout2 = Returns(<<>>)
    /\ dmerged = <<>>

\* the deduplication at rest, in the runs of the other components
QuietDedup == InitDedup

----------------------------------------------------------------------------
(* NyaaClient.build_combined_query (src/app/services/nyaa.py).  A title    *)
(* and the query are sequences of characters; a keyword and the decimal    *)
(* form of an episode number stand in the query as one element each.       *)

\* the longest list of titles, of episodes, of keywords
MaxParts == 2

\* titles: a word, two words, a blank, with a double quote, with a bar
ComboTitles ==
    { <<"a">>, <<"a", " ", "b">>, <<" ">>, <<"\"", "a">>, <<"a", "|">> }

ComboEpisodes == {1, 2}

ComboKeywords == {"OVA", "Special"}

\* the lists of at most MaxParts elements of a set
ListsOf(S) == UNION {[1..n -> S] : n \in 0..MaxParts}

\* the arguments; None and the empty list, which the function does not
\* tell apart (if episodes:, if keywords:), are both <<>>
ComboArgs ==
    [titles : ListsOf(ComboTitles), episodes : ListsOf(ComboEpisodes),
     keywords : ListsOf(ComboKeywords)]

\* t.strip() is not empty
NotBlank(t) == \E i \in 1..Len(t) : t[i] # " "

\* quote_title (lines 146-152): the double quotes removed, the title
\* quoted if it holds a space, a bar or a parenthesis
quote_title(t) ==
    LET bare == SelectSeq(t, LAMBDA c : c # "\"")
    IN IF \E i \in 1..Len(bare) : bare[i] \in {" ", "|", "(", ")"}
       THEN <<"\"">> \o bare \o <<"\"">>
       ELSE bare

\* '|'.join(elements), each element a sequence of characters
RECURSIVE JoinBar(_)
JoinBar(elements) ==
    IF elements = <<>> THEN <<>>
    ELSE IF Len(elements) = 1 THEN Head(elements)
    ELSE Head(elements) \o <<"|">> \o JoinBar(Tail(elements))

\* a part (lines 157-160, 166-169, 175-178): its one element, or its
\* elements between parentheses
PartOf(elements) ==
    IF Len(elements) = 1 THEN elements[1]
    ELSE <<"(">> \o JoinBar(elements) \o <<")">>

\* the elements of a set in ascending order
RECURSIVE SortedSet(_)
SortedSet(S) ==
    IF S = {} THEN <<>>
    ELSE LET least == CHOOSE x \in S : \A y \in S : x <= y
         IN <<least>> \o SortedSet(S \ {least})

\* the episodes in the order given, each once
unique_unsorted(episodes) == Unique(episodes, {})

\* sorted(set(episodes)) (line 165)
unique_sorted(episodes) == SortedSet(Range(episodes))

\* each element as a sequence of one element
Singletons(s) == [i \in 1..Len(s) |-> <<s[i]>>]

\* the episode part (lines 163-169); str(e) is ToString(e)
episode_part(episodes) ==
    IF episodes = <<>> THEN <<>>
    ELSE LET unique_eps == unique_sorted(episodes)
         IN PartOf(Singletons([i \in 1..Len(unique_eps) |->
                                   ToString(unique_eps[i])]))

\* the keyword part (lines 172-178); list(dict.fromkeys(keywords))
keyword_part(keywords) ==
    IF keywords = <<>> THEN <<>>
    ELSE PartOf(Singletons(Unique(keywords, {})))

\* ' '.join(parts)
RECURSIVE JoinSpace(_)
JoinSpace(parts) ==
    IF parts = <<>> THEN <<>>
    ELSE IF Len(parts) = 1 THEN Head(parts)
    ELSE Head(parts) \o <<" ">> \o JoinSpace(Tail(parts))

\* build_combined_query (lines 112-190)
build_combined_query(titles, episodes, keywords) ==
    IF titles = <<>> THEN <<>>
    ELSE LET kept == SelectSeq(titles, NotBlank)
             quoted_titles == [i \in 1..Len(kept) |-> quote_title(kept[i])]
             title_part == PartOf(quoted_titles)
             parts == <<title_part>>
                      \o (IF keyword_part(keywords) # <<>>
                          THEN <<keyword_part(keywords)>> ELSE <<>>)
                      \o (IF episode_part(episodes) # <<>>
                          THEN <<episode_part(episodes)>> ELSE <<>>)
         IN JoinSpace(parts)

\* search_multi builds its query (line 355)
BuildCombined(a) ==
    /\ bpc = "idle"
    /\ bpc' = "built"
    /\ bargs' = a
    /\ bquery' = build_combined_query(a.titles, a.episodes, a.keywords)
    /\ UNCHANGED <<serviceVars, sniffVars, dedupVars,
                 gatherVars, sharedVars, lateVars>>

\* no query built yet
InitCombo ==
    /\ bpc = "idle"
    /\ bargs = [titles |-> <<>>, episodes |-> <<>>, keywords |-> <<>>]
    /\ bquery = <<>>

\* the builder at rest, in the runs of the other components
QuietCombo == InitCombo

----------------------------------------------------------------------------
(* QueryService._execute_queries (src/app/services/query.py, lines         *)
(* 326-347): one search per query, started together and awaited with       *)
(* asyncio.gather with return_exceptions=True.  The handlers' fallback     *)
(* for a client without search_multi does the same (torznab.py, lines      *)
(* 367-375, 462-470, 545-553).                                             *)

\* the most queries of one call
MaxQueries == 3

\* settings.NYAA_ENABLED and settings.NYAA_FALLBACK_TO_PROWLARR (config.py)
NYAA_ENABLED == TRUE

NYAA_FALLBACK_TO_PROWLARR == FALSE

\* what a search may return: the guids of its results
GatherResults == { <<>>, <<"g1">>, <<"g1", "g2">> }

\* a search: running, returned with results, or raised; fallback is what
\* self.prowlarr.search would give for its query (nothing when it raises)
Task(state, results, fallback) ==
    [state |-> state, results |-> results, fallback |-> fallback]

\* the first exception leaves gather at once
PropagatesFirst(raised) == raised

\* return_exceptions=True (line 330): an exception is a result of gather,
\* it never leaves it
Propagates(raised) == FALSE

\* the loop of lines 332-345 from result i on: an exception is skipped
\* unless the fallback of lines 337-343 is on, a list extends all_results
RECURSIVE Extend(_, _, _)
Extend(results_lists, i, all_results) ==
    IF i > Len(results_lists) THEN all_results
    ELSE IF results_lists[i].state = "raised"
         THEN Extend(results_lists, i + 1,
                     IF NYAA_ENABLED /\ NYAA_FALLBACK_TO_PROWLARR
                     THEN all_results \o results_lists[i].fallback
                     ELSE all_results)
         ELSE Extend(results_lists, i + 1,
                     all_results \o results_lists[i].results)

\* _execute_queries is called with n queries and starts their searches
\* (line 328)
execute_queries(n) ==
    /\ gpc = "idle"
    /\ gpc' = "gather"
    /\ gtasks' = [i \in 1..n |-> Task("running", <<>>, <<>>)]
    /\ UNCHANGED <<gall, serviceVars, sniffVars, dedupVars, comboVars,
                 sharedVars, lateVars>>

\* the search of query i returns
TaskReturns(i, results) ==
    /\ gpc = "gather"
    /\ i \in 1..Len(gtasks)
    /\ gtasks[i].state = "running"
    /\ gtasks' = [gtasks EXCEPT ![i] = Task("returned", results, <<>>)]
    /\ UNCHANGED <<gpc, gall, serviceVars, sniffVars, dedupVars, comboVars,
                 sharedVars, lateVars>>

\* the search of query i raises
TaskRaises(i, fallback) ==
    /\ gpc = "gather"
    /\ i \in 1..Len(gtasks)
    /\ gtasks[i].state = "running"
    /\ gtasks' = [gtasks EXCEPT ![i] = Task("raised", <<>>, fallback)]
    /\ gpc' = IF Propagates(TRUE) THEN "failed" ELSE gpc
    /\ UNCHANGED <<gall, serviceVars, sniffVars, dedupVars, comboVars,
                 sharedVars, lateVars>>

\* every search has finished: gather returns their results in the order
\* of the queries, and _execute_queries returns all_results
Gathered ==
    /\ gpc = "gather"
    /\ \A i \in 1..Len(gtasks) : gtasks[i].state # "running"
    /\ gpc' = "returned"
    /\ gall' = Extend(gtasks, 1, <<>>)
    /\ UNCHANGED <<gtasks, serviceVars, sniffVars, dedupVars, comboVars,
                 sharedVars, lateVars>>

\* _execute_queries not called yet
InitGather ==
    /\ gpc = "idle"
    /\ gtasks = <<>>
    /\ gall = <<>>

\* _execute_queries at rest, in the runs of the other components
QuietGather == InitGather

----------------------------------------------------------------------------
(* The lists of the response cache in the hands of the callers of          *)
(* NyaaClient.search.  search returns the cached list itself on a hit      *)
(* (nyaa.py, lines 271-274) and the list it has just stored on a miss      *)
(* (lines 301 and 312): the entry and the caller's list are one object,    *)
(* and what a handler does to its list in place, it does to the entry.     *)

\* settings.MAX_RESULTS_PER_QUERY (config.py), the limit of a search called
\* without one
MAX_RESULTS_PER_QUERY == 100

\* the most results of a list a handler extends
MaxListLen == 4

\* the titles searched for: one with a keyword, one of digits only
SharedQueries == {"frieren", "86"}

\* the limit of the requests, smaller than the feed
SharedLimits == {2}

\* two results with the same seeders, the second newer, and a third
SharedFeed ==
    << SearchResult("g1", <<"Frieren", "OVA">>, 5, 1, TRUE),
       SearchResult("g2", <<"Frieren", "02">>, 5, 2, TRUE),
       SearchResult("g3", <<"Frieren", "03">>, 9, 1, TRUE) >>

\* what the indexer answers a search: a feed, or an error (ok false)
Fetch(ok, items) == [ok |-> ok, items |-> items]

Fetches ==
    { Fetch(FALSE, <<>>), Fetch(TRUE, <<>>), Fetch(TRUE, SharedFeed) }

\* the text of a query, by its title and the keywords joined to it: the
\* bare title, and what search_multi builds of it and the special keywords
BareOf(query) == <<query, <<>>>>

CombinedOf(query) == <<query, special_keywords>>

\* the keys of the searches the handlers make
SharedKeys ==
    { get_cache_key(BareOf(t), Category, FilterCode, l) :
        t \in SharedQueries, l \in SharedLimits \cup {MAX_RESULTS_PER_QUERY} }
    \cup { get_cache_key(CombinedOf(t), Category, FilterCode, l) :
             t \in SharedQueries, l \in SharedLimits }

\* no list under a key, and the key of no entry
NoList == << SearchResult("<absent>", <<>>, 0, 0, TRUE) >>

NoKey == get_cache_key(BareOf(""), "", "", 0)

\* a list of search: key names the cache entry it is, NoKey a list of
\* no entry
Handed(cache, stored, key, results) ==
    [cache |-> cache, stored |-> stored, key |-> key, results |-> results]

\* search (lines 233-319) on the cache c: expired tells whether the entry
\* is older than the TTL, fetch what the indexer answers on a miss
search(c, st, query, limit, expired, fetch) ==
    LET key == get_cache_key(query, Category, FilterCode, limit)
        c1  == IF c[key] # NoList /\ expired
               THEN [c EXCEPT ![key] = NoList] ELSE c
        results ==
            ProcessResponse([wellFormed |-> TRUE, items |-> fetch.items],
                            limit)
    IN IF c1[key] # NoList THEN Handed(c1, st, key, c1[key])
       ELSE IF ~fetch.ok THEN Handed(c1, st, NoKey, <<>>)
       ELSE Handed([c1 EXCEPT ![key] = results],
                   [st EXCEPT ![key] = results], key, results)

\* _extract_keywords (query.py, lines 505-524) of the queries
extract_keywords(query) == IF query = "frieren" THEN {"frieren"} ELSE {}

\* _is_result_relevant: a keyword is a word of the title
is_result_relevant(title, search_keywords) ==
    \E i \in 1..Len(title) : Lower(title[i]) \in search_keywords

\* filter_relevant_results (lines 477-484) returns the list it was given
\* when it is empty or the query has no keyword
filter_returns_argument(results, query) ==
    results = <<>> \/ extract_keywords(query) = {}

\* the content of the list filter_relevant_results returns
filter_relevant_results(results, query) ==
    IF results = <<>> \/ extract_keywords(query) = {} THEN results
    ELSE SelectSeq(results,
                   LAMBDA r : is_result_relevant(r.title,
                                                 extract_keywords(query)))

\* the handler's all_results is the list of a cache entry
ExtendsEntry(h) == h.key # NoKey

\* handle_search, the branch of a plain search (torznab.py, lines 573-584):
\* the list of search filtered, then sorted in place
PlainSearch(query, limit, expired, fetch) ==
    LET h == search(kcache, kstored, BareOf(query), limit, expired, fetch)
        sorted == SortByKey(filter_relevant_results(h.results, query))
    IN /\ query = kquery
       /\ kpc' = "plain"
       /\ kcache' = IF h.key # NoKey
                       /\ filter_returns_argument(h.results, query)
                    THEN [h.cache EXCEPT ![h.key] = sorted]
                    ELSE h.cache
       /\ kstored' = h.stored
       /\ UNCHANGED <<kquery, serviceVars, sniffVars, dedupVars, comboVars,
                      gatherVars, lateVars>>

\* handle_search, the branch of a special (lines 529-534), and
\* _search_for_special (lines 430-439): all_results is the list of
\* search_multi, extended with the list of the search for the bare title
SpecialSearch(query, limit, expired, fetch, bare_expired, bare_fetch) ==
    LET all  == search(kcache, kstored, CombinedOf(query), limit,
                       expired, fetch)
        bare == search(all.cache, all.stored, BareOf(query), limit,
                       bare_expired, bare_fetch)
    IN /\ query = kquery
       /\ Len(all.results) + Len(bare.results) <= MaxListLen
       /\ kpc' = "special"
       /\ kcache' = IF ExtendsEntry(all)
                    THEN [bare.cache EXCEPT
                              ![all.key] = all.results \o bare.results]
                    ELSE bare.cache
       /\ kstored' = bare.stored
       /\ UNCHANGED <<kquery, serviceVars, sniffVars, dedupVars, comboVars,
                      gatherVars, lateVars>>

\* _execute_queries (query.py, lines 326-347): the list of search is
\* copied into a new all_results, which alone is filtered and sorted
CopyingSearch(query, expired, fetch) ==
    LET h == search(kcache, kstored, BareOf(query), MAX_RESULTS_PER_QUERY,
                    expired, fetch)
    IN /\ query = kquery
       /\ kpc' = "copying"
       /\ kcache' = h.cache
       /\ kstored' = h.stored
       /\ UNCHANGED <<kquery, serviceVars, sniffVars, dedupVars, comboVars,
                      gatherVars, lateVars>>

\* an empty cache, and requests for one title
InitShared ==
    /\ kpc = "idle"
    /\ kquery \in SharedQueries
    /\ kcache = [k \in SharedKeys |-> NoList]
    /\ kstored = [k \in SharedKeys |-> NoList]

\* the cache at rest, in the runs of the other components
QuietShared ==
    /\ kpc = "idle"
    /\ kquery = ""
    /\ kcache = [k \in SharedKeys |-> NoList]
    /\ kstored = [k \in SharedKeys |-> NoList]

----------------------------------------------------------------------------
(* AniListClient._wait_for_rate_limit (src/app/services/anilist.py, lines  *)
(* 62-78): a bucket of ANILIST_RATE_LIMIT tokens refilled when the window  *)
(* of 60 seconds has passed since the last reset.  The whole body runs     *)
(* under AniListClient._lock, the sleep included.                          *)
(*   idle   no query, or the query has been let through                    *)
(*   lock   at "async with self._lock"                                     *)
(*   sleep  holding the lock, in asyncio.sleep(wait_time)                  *)

\* settings.ANILIST_RATE_LIMIT (config.py) and self.rate_limit_window
ANILIST_RATE_LIMIT == 90

RATE_LIMIT_WINDOW == 60

\* granularity of the clock in the runs of the bucket, in seconds
BucketTick == 20

BucketCallers == {1, 2}

\* no wait at all when the tokens are used up
WaitTimeNone(elapsed) == 0

\* wait_time (line 71)
WaitTime(elapsed) == RATE_LIMIT_WINDOW - elapsed

\* a query calls _wait_for_rate_limit
Arrive(c) ==
    /\ wpc[c] = "idle"
    /\ wpc' = [wpc EXCEPT ![c] = "lock"]
    /\ UNCHANGED <<tokens, sinceReset, wlock, wsleep, admitted, early>>
    /\ UNCHANGED <<serviceVars, earlyVars, offBucket>>

\* the query takes the lock (line 64) and runs to the sleep of line 74 or,
\* when it need not wait, to the end (line 78)
EnterBucket(c) ==
    LET expired  == sinceReset >= RATE_LIMIT_WINDOW
        refilled == IF expired THEN ANILIST_RATE_LIMIT ELSE tokens
        elapsed  == IF expired THEN 0 ELSE sinceReset
        waits    == refilled <= 0 /\ WaitTime(elapsed) > 0
    IN
    /\ wpc[c] = "lock"
    /\ wlock = 0
    /\ sinceReset' = elapsed
    /\ IF waits
       THEN /\ wpc' = [wpc EXCEPT ![c] = "sleep"]
            /\ wlock' = c
            /\ wsleep' = WaitTime(elapsed)
            /\ tokens' = refilled
            /\ admitted' = IF expired THEN 0 ELSE admitted
            /\ early' = early
       ELSE /\ wpc' = [wpc EXCEPT ![c] = "idle"]
            /\ tokens' = refilled - 1
            /\ admitted' = (IF expired THEN 0 ELSE admitted) + 1
            /\ early' = (early \/ refilled <= 0)
            /\ UNCHANGED <<wlock, wsleep>>
    /\ UNCHANGED <<serviceVars, earlyVars, offBucket>>

\* asyncio.sleep(wait_time) returns: refill, stamp the reset (lines 75-76),
\* take a token (line 78), leave the lock
LeaveSleep(c) ==
    /\ wpc[c] = "sleep"
    /\ wsleep = 0
    /\ tokens' = ANILIST_RATE_LIMIT - 1
    /\ sinceReset' = 0
    /\ admitted' = 1
    /\ early' = (early \/ sinceReset < RATE_LIMIT_WINDOW)
    /\ wlock' = 0
    /\ wpc' = [wpc EXCEPT ![c] = "idle"]
    /\ UNCHANGED wsleep
    /\ UNCHANGED <<serviceVars, earlyVars, offBucket>>

\* the clocks advance by step seconds; the code compares the time since
\* the last reset with the window only, so it saturates there
TickBucket(step) ==
    /\ sinceReset < RATE_LIMIT_WINDOW \/ wsleep > 0
    /\ sinceReset' = IF sinceReset + step >= RATE_LIMIT_WINDOW
                     THEN RATE_LIMIT_WINDOW ELSE sinceReset + step
    /\ wsleep' = IF wsleep > step THEN wsleep - step ELSE 0
    /\ UNCHANGED <<wpc, tokens, wlock, admitted, early>>
    /\ UNCHANGED <<serviceVars, earlyVars, offBucket>>

\* AniListClient.__init__ (lines 55-60)
InitBucket ==
    /\ wpc = [c \in BucketCallers |-> "idle"]
    /\ tokens = ANILIST_RATE_LIMIT
    /\ sinceReset = 0
    /\ wlock = 0
    /\ wsleep = 0
    /\ admitted = 0
    /\ early = FALSE

\* the bucket at rest, in the runs of the other components
QuietBucket == InitBucket

----------------------------------------------------------------------------
(* The caches kept in files of DATA_DIR: MappingService.cache in           *)
(* mappings.json, MappingService.overrides in overrides.json               *)
(* (src/app/services/mapping.py), TheXEMClient.cache in thexem_cache.json  *)
(* (src/app/services/thexem.py).  A JSON object is the sequence of its     *)
(* members, a dict the sequence of its items in insertion order.           *)

\* most members of a file found at start-up
MaxEntries == 2

StoreKinds == {"mappings", "overrides", "xem"}

\* the keys a file may hold: the decimal strings of ids, and a string that
\* is no number
FileKeys == {"1", "2", "x"}

\* the values a file may hold: what a model dumped, a default-valued model,
\* and one that the constructor (or datetime.fromisoformat) refuses
FileVals == {"user", "default", "bad"}

Member(key, val) == [key |-> key, val |-> val]

\* str(tvdb_id) (mapping.py, lines 48 and 76)
str(id) == IF id = 0 THEN "0" ELSE IF id = 1 THEN "1" ELSE "2"

\* int(tvdb_id_str) (lines 37 and 64) of a string it accepts
int(key) == IF key = "0" THEN 0 ELSE IF key = "1" THEN 1 ELSE 2

\* int(tvdb_id_str) raises ValueError
int_raises(key) == key \notin {"0", "1", "2"}

\* AnimeMapping(**data), MappingOverride(**data) or
\* datetime.fromisoformat(value["cached_at"]) raises
ValueRaises(val) == val = "bad"

\* the loop of lines 36-38 and 63-65 stops at this member
MemberRaises(m) == int_raises(m.key) \/ ValueRaises(m.val)

\* index of the first member of ms that raises, Len(ms) + 1 when none does
FirstRaising(ms) ==
    IF \E i \in 1..Len(ms) : MemberRaises(ms[i])
    THEN CHOOSE i \in 1..Len(ms) :
             /\ MemberRaises(ms[i])
             /\ \A j \in 1..(i - 1) : ~MemberRaises(ms[j])
    ELSE Len(ms) + 1

\* self.cache[tvdb_id] = ... / self.overrides[tvdb_id] = ...: the item
\* keeps its place when the key is there, else goes last
Put(items, key, val) ==
    IF \E i \in 1..Len(items) : items[i].key = key
    THEN [i \in 1..Len(items) |->
             IF items[i].key = key THEN Member(key, val) ELSE items[i]]
    ELSE Append(items, Member(key, val))

\* del self.overrides[tvdb_id]
Del(items, key) == SelectSeq(items, LAMBDA m : m.key # key)

HasKey(items, key) == \E i \in 1..Len(items) : items[i].key = key

\* the dict after the loop of lines 36-38 and 63-65 over the members ms,
\* which has assigned the members before the first that raises
LoadedUpTo(ms, upto) ==
    [i \in 1..(upto - 1) |-> Member(int(ms[i].key), ms[i].val)]

\* the dict of TheXEMClient after lines 30-37: self.cache = data is reached
\* only when no value has raised
LoadedWhole(ms) ==
    IF \E i \in 1..Len(ms) : ValueRaises(ms[i].val) THEN <<>> ELSE ms

\* the object written by lines 47-52 and 75-80: the keys are str(tvdb_id)
Dumped(items) == [i \in 1..Len(items) |-> Member(str(items[i].key), items[i].val)]

\* the operation that ran last and the outcome of its write
Last(op, written) == [op |-> op, written |-> written]

\* MappingService._load_cache and _load_overrides (lines 30-41, 57-68),
\* called once by initialize
load_cache(kind) ==
    LET ms   == sfile.content
        upto == FirstRaising(ms)
    IN
    /\ spc = "new"
    /\ skind = kind
    /\ kind \in {"mappings", "overrides"}
    /\ spc' = "ready"
    /\ IF sfile.state = "absent"
       THEN smem' = smem /\ sfailed' = FALSE
       ELSE IF sfile.state = "torn"
       THEN smem' = smem /\ sfailed' = TRUE
       ELSE /\ smem' = LoadedUpTo(ms, upto)
            /\ sfailed' = (upto <= Len(ms))
    /\ slast' = Last("load", "")
    /\ UNCHANGED <<skind, sfile>>
    /\ UNCHANGED <<serviceVars, earlyVars, offStore>>

\* TheXEMClient._load_cache (thexem.py, lines 25-40), called by __init__
xem_load_cache ==
    LET ms == sfile.content IN
    /\ spc = "new"
    /\ skind = "xem"
    /\ spc' = "ready"
    /\ IF sfile.state = "absent"
       THEN smem' = smem /\ sfailed' = FALSE
       ELSE IF sfile.state = "torn"
       THEN smem' = smem /\ sfailed' = TRUE
       ELSE /\ smem' = LoadedWhole(ms)
            /\ sfailed' = \E i \in 1..Len(ms) : ValueRaises(ms[i].val)
    /\ slast' = Last("load", "")
    /\ UNCHANGED <<skind, sfile>>
    /\ UNCHANGED <<serviceVars, earlyVars, offStore>>

\* POST /api/mappings/override (webui.py, lines 47-64): an anilist_id the
\* metadata client does not find is refused with 400, else save_override
\* (mapping.py, lines 70-88) sets the override and writes the file
create_override(id, anilist_id, found, outcome) ==
    /\ spc = "ready"
    /\ skind = "overrides"
    /\ IF anilist_id # 0 /\ ~found
       THEN /\ slast' = Last("refused", "")
            /\ UNCHANGED <<smem, sfile>>
       ELSE /\ smem' = Put(smem, id, "user")
            /\ sfile' = Written(sfile, Dumped(smem'), <<>>, outcome)
            /\ slast' = Last("create", outcome)
    /\ UNCHANGED <<spc, skind, sfailed>>
    /\ UNCHANGED <<serviceVars, earlyVars, offStore>>

\* the dict that delete_override has save_override write (webui.py,
\* lines 79-83): the override of tvdb_id 0 is in it
WithDummy(items) == Put(items, 0, "default")

\* DELETE /api/mappings/override/{tvdb_id} (webui.py, lines 75-90): 404
\* when there is no override of the id; else the override is deleted, an
\* override of tvdb_id 0 saved to have the file written, and the override
\* of tvdb_id 0 deleted from the dict
delete_override(id, outcome) ==
    /\ spc = "ready"
    /\ skind = "overrides"
    /\ IF ~HasKey(smem, id)
       THEN /\ slast' = Last("refused", "")
            /\ UNCHANGED <<smem, sfile>>
       ELSE /\ sfile' = Written(sfile, Dumped(WithDummy(Del(smem, id))), <<>>,
                                outcome)
            /\ smem' = Del(Del(smem, id), 0)
            /\ slast' = Last("delete", outcome)
    /\ UNCHANGED <<spc, skind, sfailed>>
    /\ UNCHANGED <<serviceVars, earlyVars, offStore>>

\* the process ends and starts again: the dicts are empty (__init__), the
\* files as they were
Restart ==
    /\ spc = "ready"
    /\ spc' = "new"
    /\ smem' = <<>>
    /\ sfailed' = FALSE
    /\ slast' = Last("", "")
    /\ UNCHANGED <<skind, sfile>>
    /\ UNCHANGED <<serviceVars, earlyVars, offStore>>

\* the objects of at most n members with distinct keys
RECURSIVE Objects(_)
Objects(n) ==
    IF n = 0 THEN {<<>>}
    ELSE LET shorter == Objects(n - 1) IN
         shorter \cup
         {Append(ms, Member(k, v)) :
              ms \in {o \in shorter : Len(o) = n - 1},
              k \in FileKeys, v \in FileVals \ {"default"}}

DistinctKeys(ms) == \A i, j \in 1..Len(ms) : ms[i].key = ms[j].key => i = j

\* the files a start-up may find: none, one that is no JSON, one that
\* holds an object
StoredFiles ==
    {File("absent", <<>>), File("torn", <<>>)}
        \cup {File("ok", ms) : ms \in {o \in Objects(MaxEntries) : DistinctKeys(o)}}

\* __init__ of MappingService (lines 19-23) and of TheXEMClient before its
\* load (thexem.py, lines 18-22)
InitStore ==
    /\ spc = "new"
    /\ skind \in StoreKinds
    /\ sfile \in StoredFiles
    /\ smem = <<>>
    /\ sfailed = FALSE
    /\ slast = Last("", "")

\* the persisted caches at rest, in the runs of the other components
QuietStore ==
    /\ spc = "new"
    /\ skind = ""
    /\ sfile = File("absent", <<>>)
    /\ smem = <<>>
    /\ sfailed = FALSE
    /\ slast = Last("", "")

----------------------------------------------------------------------------
(* AnimeOfflineDatabase (src/app/services/anime_db.py): the catalog in     *)
(* memory, its two indexes, and its copy in DATA_DIR.  A JSON document is  *)
(* the sequence of the entries of its "data" member.                       *)

\* a source URL of an entry: its site, and what follows its last "/"
Source(site, tail) == [site |-> site, tail |-> tail]

\* an entry of the catalog; one that is not well formed is not a JSON
\* object (or its sources are no list of strings), so that reading it in
\* _build_tvdb_index raises
Anime2(title, sources, wellFormed) ==
    [title |-> title, sources |-> sources, wellFormed |-> wellFormed]

NoAnime2 == Anime2("", <<>>, TRUE)

\* self.data: {} (falsy), or a document
Data(present, data) == [present |-> present, data |-> data]

NoData == Data(FALSE, <<>>)

\* the catalogs of the runs: an old release, a newer one, and a document
\* whose second entry is not well formed
ReleaseA ==
    Data(TRUE, <<Anime2("Sousou no Frieren", <<Source("tvdb", "1")>>, TRUE)>>)

ReleaseB ==
    Data(TRUE, <<Anime2("Sousou no Frieren", <<Source("tvdb", "1")>>, TRUE),
                 Anime2("86", <<Source("tvdb", "2"), Source("anilist", "x")>>, TRUE),
                 Anime2("Kimi no Na wa", <<Source("tmdb", "2"), Source("tvdb", "x")>>, TRUE)>>)

Damaged ==
    Data(TRUE, <<Anime2("86", <<Source("tvdb", "2")>>, TRUE),
                 Anime2("", <<>>, FALSE)>>)

CatalogIds == {1, 2}

\* index of the first entry that is not well formed, Len + 1 when all are
FirstMalformed(entries) ==
    IF \E i \in 1..Len(entries) : ~entries[i].wellFormed
    THEN CHOOSE i \in 1..Len(entries) :
             /\ ~entries[i].wellFormed
             /\ \A j \in 1..(i - 1) : entries[j].wellFormed
    ELSE Len(entries) + 1

\* the entry has a source of the site whose tail int() reads as id
\* (lines 127-139; a tail int() refuses is skipped)
Names(anime, site, id) ==
    \E k \in 1..Len(anime.sources) :
        /\ anime.sources[k].site = site
        /\ ~int_raises(anime.sources[k].tail)
        /\ int(anime.sources[k].tail) = id

\* one index after the loop of lines 124-140 has run over the entries
\* before upto: the last entry naming an id wins
IndexOf(entries, upto, site) ==
    [id \in CatalogIds |->
        LET hits == {i \in 1..(upto - 1) : Names(entries[i], site, id)} IN
        IF hits = {} THEN NoAnime2
        ELSE entries[CHOOSE i \in hits : \A j \in hits : j <= i]]

Indexes(tvdb, tmdb) == [tvdb |-> tvdb, tmdb |-> tmdb]

NoIndexes ==
    Indexes([id \in CatalogIds |-> NoAnime2], [id \in CatalogIds |-> NoAnime2])

\* _build_tvdb_index (lines 120-140): both indexes are emptied, then
\* filled entry by entry until an entry raises
build_tvdb_index(data) ==
    LET upto == FirstMalformed(data.data) IN
    [index  |-> Indexes(IndexOf(data.data, upto, "tvdb"),
                        IndexOf(data.data, upto, "tmdb")),
     raises |-> upto <= Len(data.data)]

\* search_by_title (lines 278-329) for a query that is a whole title:
\* the entries of self.data under that title
search_by_title(data, query) ==
    SelectSeq(data.data, LAMBDA a : a.wellFormed /\ a.title = query)

\* the object after a method: data, the indexes, last_update
Catalog(data, index, updated) ==
    [data |-> data, index |-> index, updated |-> updated]

\* _load_from_file (lines 106-118) on the object c
load_from_file(c, file, old) ==
    IF file.state # "ok"
    THEN Catalog(NoData, c.index, c.updated)
    ELSE LET built == build_tvdb_index(file.content)
             mtime == IF old THEN "old" ELSE "recent"
         IN
         IF built.raises
         THEN Catalog(NoData, built.index, mtime)
         ELSE Catalog(file.content, built.index, mtime)

\* _needs_update (lines 73-78)
needs_update(c) == c.updated # "recent"

\* what the download may give: an error of the transport or of the status,
\* a body that is no JSON, a release
Downloads == {"fails", "not_json", "A", "B"}

Release(dl) == IF dl = "A" THEN ReleaseA ELSE ReleaseB

\* line 96 is reached: the write of lines 91-93 has not raised
Rebuilds(outcome) == outcome = "ok"

\* update_database (lines 80-104) on the object c: the object and the
\* file after it
updated_database(c, file, old, dl, outcome) ==
    IF dl \in {"fails", "not_json"}
    THEN [c |-> IF ~c.data.present /\ file.state # "absent"
                THEN load_from_file(c, file, old) ELSE c,
          file |-> file, old |-> old]
    ELSE LET new     == Release(dl)
             written == Written(file, new, NoData, outcome)
         IN
         IF Rebuilds(outcome)
         THEN [c |-> Catalog(new, build_tvdb_index(new).index, "recent"),
               file |-> written, old |-> FALSE]
         ELSE [c |-> Catalog(new, c.index, c.updated),
               file |-> written,
               old |-> IF outcome = "dump_fails" THEN FALSE ELSE old]

\* the operation that ran last: its name, what the download gave, the
\* state of the copy on disk when it began (absent, torn, damaged, ok),
\* the object when it began
Ran(op, dl, copy, before) ==
    [op |-> op, dl |-> dl, copy |-> copy, before |-> before]

CopyState(file) ==
    IF file.state # "ok" THEN file.state
    ELSE IF build_tvdb_index(file.content).raises THEN "damaged" ELSE "ok"

ThisCatalog == Catalog(cdata, cindex, cupdated)

\* initialize (lines 63-71): the copy on disk is loaded when there is one,
\* and the catalog downloaded when there is none or the copy is older
\* than the interval
initialize(dl, outcome) ==
    LET loaded  == IF cfile.state # "absent"
                   THEN load_from_file(ThisCatalog, cfile, cold)
                   ELSE ThisCatalog
        updates == cfile.state = "absent" \/ needs_update(loaded)
        after   == IF updates
                   THEN updated_database(loaded, cfile, cold, dl, outcome)
                   ELSE [c |-> loaded, file |-> cfile, old |-> cold]
    IN
    /\ cpc = "new"
    /\ cpc' = "ready"
    /\ cdata' = after.c.data
    /\ cindex' = after.c.index
    /\ cupdated' = after.c.updated
    /\ cfile' = after.file
    /\ cold' = after.old
    /\ clast' = Ran("initialize", IF updates THEN dl ELSE "skipped",
                    CopyState(cfile), ThisCatalog)
    /\ UNCHANGED <<serviceVars, earlyVars, offCatalog>>

\* update_database (lines 80-104) called again on the running service
update_database(dl, outcome) ==
    LET after == updated_database(ThisCatalog, cfile, cold, dl, outcome) IN
    /\ cpc = "ready"
    /\ cdata' = after.c.data
    /\ cindex' = after.c.index
    /\ cupdated' = after.c.updated
    /\ cfile' = after.file
    /\ cold' = after.old
    /\ clast' = Ran("update", dl, CopyState(cfile), ThisCatalog)
    /\ UNCHANGED cpc
    /\ UNCHANGED <<serviceVars, earlyVars, offCatalog>>

\* the update interval passes
IntervalPasses ==
    /\ ~cold \/ cupdated = "recent"
    /\ cold' = TRUE
    /\ cupdated' = IF cupdated = "recent" THEN "old" ELSE cupdated
    /\ UNCHANGED <<cpc, cdata, cindex, cfile, clast>>
    /\ UNCHANGED <<serviceVars, earlyVars, offCatalog>>

\* the process ends and starts again (__init__, lines 56-61)
StartAgain ==
    /\ cpc = "ready"
    /\ cpc' = "new"
    /\ cdata' = NoData
    /\ cindex' = NoIndexes
    /\ cupdated' = "none"
    /\ clast' = Ran("", "", "", Catalog(NoData, NoIndexes, "none"))
    /\ UNCHANGED <<cfile, cold>>
    /\ UNCHANGED <<serviceVars, earlyVars, offCatalog>>

\* the copies a start-up may find
CatalogFiles ==
    {File("absent", NoData), File("torn", NoData),
     File("ok", ReleaseA), File("ok", Damaged)}

\* __init__ (lines 56-61)
InitCatalog ==
    /\ cpc = "new"
    /\ cdata = NoData
    /\ cindex = NoIndexes
    /\ cupdated = "none"
    /\ cfile \in CatalogFiles
    /\ cold \in BOOLEAN
    /\ clast = Ran("", "", "", Catalog(NoData, NoIndexes, "none"))

\* the catalog at rest, in the runs of the other components
QuietCatalog ==
    /\ cpc = "new"
    /\ cdata = NoData
    /\ cindex = NoIndexes
    /\ cupdated = "none"
    /\ cfile = File("absent", NoData)
    /\ cold = FALSE
    /\ clast = Ran("", "", "", Catalog(NoData, NoIndexes, "none"))

----------------------------------------------------------------------------
(* SonarrClient.get_wanted_episode_by_episode_number                       *)
(* (src/app/services/sonarr.py, lines 230-308) and                         *)
(* EpisodeInfo.from_sonarr_response (src/app/models.py, lines 181-195).    *)

\* EpisodeInfo as far as the handler looks at it
EpisodeInfo(season_number, episode_number, absolute_episode_number, is_special) ==
    [season_number |-> season_number, episode_number |-> episode_number,
     absolute_episode_number |-> absolute_episode_number,
     is_special |-> is_special]

NoEpisodeInfo == EpisodeInfo(NoInt, NoInt, NoInt, FALSE)

\* EpisodeInfo.from_sonarr_response (models.py, lines 186-195)
from_sonarr_response(ep) ==
    EpisodeInfo(ep.seasonNumber, ep.episodeNumber, ep.absoluteEpisodeNumber,
                ep.seasonNumber = 0)

\* the episodes of every season are candidates
InAnySeason(ep) == TRUE

\* ep.get("seasonNumber", 0) > 0 (sonarr.py, line 265)
InRegularSeason(ep) == ep.seasonNumber > 0

\* the first element of sort(key=seasonNumber, reverse=True): the sort is
\* stable, so the earliest episode of the highest season
MostRecent(eps) ==
    eps[CHOOSE i \in 1..Len(eps) :
            /\ \A j \in 1..Len(eps) : eps[j].seasonNumber <= eps[i].seasonNumber
            /\ \A j \in 1..(i - 1) : eps[j].seasonNumber < eps[i].seasonNumber]

\* get_wanted_episode_by_episode_number (lines 247-308) on the episodes
\* Sonarr lists for the series
wanted_episode(configured, episodes, episode_num) ==
    LET candidates == SelectSeq(episodes, LAMBDA ep :
                          ep.episodeNumber = episode_num /\ InRegularSeason(ep))
        wanted     == SelectSeq(candidates, LAMBDA ep :
                          ep.monitored /\ ~ep.hasFile)
    IN
    IF ~configured \/ candidates = <<>> THEN NoEpisodeInfo
    ELSE IF wanted # <<>> THEN from_sonarr_response(MostRecent(wanted))
    ELSE from_sonarr_response(MostRecent(candidates))

\* the method is called and returns
get_wanted_episode_by_episode_number(episode_num) ==
    /\ qpc = "idle"
    /\ qpc' = "returned"
    /\ qnum' = episode_num
    /\ qret' = wanted_episode(sonarrConfigured, sonarrEpisodes, episode_num)
    /\ UNCHANGED <<serviceVars, earlyVars, offWanted>>

\* what Sonarr may hold for the series besides SonarrEpisodeChoices: a
\* wanted special among wanted and kept regular episodes, a wanted special
\* alone, a wanted special and a regular episode on disk
SpecialEpisodeChoices ==
    { << SonarrEpisode(0, 1, NoInt, TRUE, FALSE), SonarrEpisode(1, 1, 1, TRUE, TRUE),
         SonarrEpisode(2, 1, 14, TRUE, FALSE), SonarrEpisode(2, 2, 15, TRUE, FALSE) >>,
      << SonarrEpisode(0, 1, NoInt, TRUE, FALSE) >>,
      << SonarrEpisode(0, 2, NoInt, TRUE, FALSE), SonarrEpisode(1, 2, 2, TRUE, TRUE) >> }

EpisodeNumbers == {1, 2}

\* no call yet
InitWanted ==
    /\ qpc = "idle"
    /\ qnum = NoInt
    /\ qret = NoEpisodeInfo

QuietWanted == InitWanted

----------------------------------------------------------------------------
(* QueryService._normalize_title (src/app/services/query.py, lines         *)
(* 416-458) on the text of a title.  A title is a sequence of pieces: a    *)
(* blank, a bracket, or a word no pattern cuts into.                       *)

\* the longest title of the runs, in pieces
MaxTitleLen == 3

\* the pieces of the titles
Pieces == {"Frieren", "frieren", "Dual", "dual", "audio", "1080p", "[", " "}

\* str.lower() of a piece
lower(piece) ==
    IF piece = "Frieren" THEN "frieren"
    ELSE IF piece = "Dual" THEN "dual"
    ELSE piece

\* patterns_to_remove (lines 425-450) in the order of the list, those the
\* pieces can spell
PatternList == << <<"1080p">>, <<"dual", " ", "audio">>, <<"[">> >>

\* text[i:].startswith(pattern)
StartsWith(text, i, pattern) ==
    /\ i + Len(pattern) - 1 <= Len(text)
    /\ \A k \in 1..Len(pattern) : text[i + k - 1] = pattern[k]

\* text.replace(pattern, " ") from the place i on: the occurrences from
\* the left, none overlapping another
RECURSIVE ReplaceFrom(_, _, _)
ReplaceFrom(text, i, pattern) ==
    IF i > Len(text) THEN <<>>
    ELSE IF StartsWith(text, i, pattern)
    THEN <<" ">> \o ReplaceFrom(text, i + Len(pattern), pattern)
    ELSE <<text[i]>> \o ReplaceFrom(text, i + 1, pattern)

\* the loop of lines 452-453 over the patterns from the k-th on
RECURSIVE RemoveFrom(_, _)
RemoveFrom(text, k) ==
    IF k > Len(PatternList) THEN text
    ELSE RemoveFrom(ReplaceFrom(text, 1, PatternList[k]), k + 1)

\* " ".join(text.split()) (line 456): no blank at either end, one blank
\* for each run of blanks
CollapseBlanks(text) ==
    LET kept == {i \in 1..Len(text) :
                    \/ text[i] # " "
                    \/ /\ i > 1 /\ text[i - 1] # " "
                       /\ \E j \in (i + 1)..Len(text) : text[j] # " "}
        nth(n) == CHOOSE i \in kept : Cardinality({j \in kept : j <= i}) = n
    IN [n \in 1..Cardinality(kept) |-> text[nth(n)]]

\* _normalize_title (lines 422-458)
NormalizeTitle(title) ==
    CollapseBlanks(RemoveFrom([i \in 1..Len(title) |-> lower(title[i])], 1))

\* the titles of at most n pieces
RECURSIVE TitlesUpTo(_)
TitlesUpTo(n) ==
    IF n = 0 THEN {<<>>}
    ELSE LET shorter == TitlesUpTo(n - 1) IN
         shorter \cup {Append(t, p) : t \in {u \in shorter : Len(u) = n - 1},
                                      p \in Pieces}

\* the title is normalized
Normalize ==
    /\ npc = "idle"
    /\ npc' = "once"
    /\ nout' = NormalizeTitle(ntitle)
    /\ UNCHANGED <<ntitle, nout2>>
    /\ UNCHANGED <<serviceVars, earlyVars, offNormal>>

\* what came out is normalized again
NormalizeAgain ==
    /\ npc = "once"
    /\ npc' = "twice"
    /\ nout2' = NormalizeTitle(nout)
    /\ UNCHANGED <<ntitle, nout>>
    /\ UNCHANGED <<serviceVars, earlyVars, offNormal>>

\* any title, not yet normalized
InitNormal ==
    /\ npc = "idle"
    /\ ntitle \in TitlesUpTo(MaxTitleLen)
    /\ nout = <<>>
    /\ nout2 = <<>>

\* the function at rest, in the runs of the other components
QuietNormal ==
    /\ npc = "idle"
    /\ ntitle = <<>>
    /\ nout = <<>>
    /\ nout2 = <<>>

\* the services at rest, in the runs of single functions
QuietServices ==
    QuietNyaa /\ utc = 0 /\ QuietMapping /\ QuietApi /\ QuietPlan

\* no function called, in the runs of the services
QuietEarly ==
    QuietSniff /\ QuietDedup /\ QuietCombo /\ QuietGather /\ QuietShared

QuietLate ==
    QuietBucket /\ QuietStore /\ QuietCatalog /\ QuietWanted /\ QuietNormal

QuietCalls == QuietEarly /\ QuietLate

----------------------------------------------------------------------------
(* The specifications.                                                     *)

\* the application after start-up, seen from the indexer client
InitClient == InitNyaa /\ QuietMapping /\ QuietApi /\ QuietPlan /\ QuietCalls

(* Three concurrent searches of one query, the wall clock standing still:  *)
(* the rate limiter.                                                       *)
RateTasks == {1, 2, 3}

NextRate ==
    \/ \E t \in RateTasks : NextIdle(t) /\ Search(t, "frieren", 2)
    \/ \E t \in RateTasks : TaskStep(t)
    \/ \E t \in RateTasks, st \in {200, 429} :
           Respond(t, st, [wellFormed |-> TRUE, items |-> <<Item("g1", 5)>>])
    \/ TickLoop(TickMs)

SpecRate == InitClient /\ [][NextRate]_vars

(* The same three searches, the indexer answering every request with a    *)
(* feed, with 429 or not at all (status 0: the request raises), tasks      *)
(* cancelled at will.  The event loop runs every task that can run, its    *)
(* clock advances, and no request stays unanswered.                        *)
NextRelease ==
    \/ \E t \in RateTasks : NextIdle(t) /\ Search(t, "frieren", 2)
    \/ \E t \in RateTasks : TaskStep(t)
    \/ \E t \in RateTasks :
           Respond(t, 200, [wellFormed |-> TRUE, items |-> <<Item("g1", 5)>>])
    \/ \E t \in RateTasks, st \in {429, 0} : Respond(t, st, NotXml)
    \/ \E t \in RateTasks : Cancel(t)
    \/ TickLoop(SearchTickMs)

Answered(t) ==
    \E st \in {200, 429, 0}, b \in Bodies \cup {NotXml} : Respond(t, st, b)

SpecRelease ==
    /\ InitClient
    /\ [][NextRelease]_vars
    /\ \A t \in RateTasks : WF_vars(TaskStep(t))
    /\ \A t \in RateTasks : WF_vars(Answered(t))
    /\ WF_vars(TickLoop(SearchTickMs))

(* Two tasks searching, any answer of the indexer, both clocks running,    *)
(* the cache cleared at will: retries and the response cache.              *)
SearchTasks == {1, 2}

NextSearch ==
    \/ \E t \in SearchTasks, q \in Queries, l \in Limits :
           NextIdle(t) /\ Search(t, q, l)
    \/ \E t \in SearchTasks : TaskStep(t)
    \/ \E t \in SearchTasks, b \in Bodies \cup {NotXml} : Respond(t, 200, b)
    \/ \E t \in SearchTasks, st \in {429, 0} : Respond(t, st, NotXml)
    \/ clear_cache
    \/ TickLoop(SearchTickMs)
    \/ TickUtc(UtcStep, MaxUtcSteps)

SpecSearch == InitClient /\ [][NextSearch]_vars

(* The same searches on a cache that earlier searches have nearly filled:  *)
(* Prefill entries of other queries.  The first of them was stored again,  *)
(* in place, by a duplicate fetch that returned late, so that the order of *)
(* the dict is not the order of the store times.                           *)
FillerKey(i) == get_cache_key("filler", Category, FilterCode, i)

FillerAt(i) == IF i = 1 THEN UtcStep ELSE 0

InitCache ==
    /\ pc = [t \in Tasks |-> "idle"]
    /\ permits = NYAA_MAX_CONCURRENT_REQUESTS
    /\ lockHeld = 0
    /\ sinceLast = NYAA_REQUEST_DELAY_MS
    /\ searchCache = [i \in 1..Prefill |->
                         [key |-> FillerKey(i), results |-> <<>>,
                          at |-> FillerAt(i)]]
    /\ utc = UtcStep
    /\ sleep = [t \in Tasks |-> 0]
    /\ attempt = [t \in Tasks |-> 0]
    /\ cur = [t \in Tasks |-> NoSearch]
    /\ sleeps = [t \in Tasks |-> <<>>]
    /\ statuses = [t \in Tasks |-> <<>>]
    /\ log = <<>>
    /\ sinceSend = NYAA_REQUEST_DELAY_MS
    /\ tooClose = FALSE
    /\ evicted = NoEntry

InitFilled == InitCache /\ QuietMapping /\ QuietApi /\ QuietPlan /\ QuietCalls

SpecCache == InitFilled /\ [][NextSearch]_vars

(* Two callers of get_mapping, any answer of the metadata client, any      *)
(* outcome of the file writes, overrides saved at will, the wall clock     *)
(* running past the TTL of the mapping cache.                              *)
NextMapping ==
    \/ \E c \in MapCallers, id \in Ids, w \in WriteOutcomes : get_mapping(c, id, w)
    \/ \E c \in MapCallers, o \in AniListOutcomes : OverrideEnriched(c, o)
    \/ \E c \in MapCallers, o \in AniListOutcomes, w \in WriteOutcomes :
           CatalogEnriched(c, o, w)
    \/ \E ov \in OverrideChoices, w \in WriteOutcomes : save_override(ov, w)
    \/ TickUtc(MapUtcStep, MapUtcSteps)

InitResolver ==
    QuietNyaa /\ utc = 0 /\ InitMapping /\ QuietApi /\ QuietPlan /\ QuietCalls

SpecMapping == InitResolver /\ [][NextMapping]_vars

(* One request to GET /api, any parameters, any answer of the mapping      *)
(* service and of the search client, Sonarr configured or not.             *)
NextApi ==
    \/ \E r \in Requests : Receive(r)
    \/ \E m \in MappingOutcomes : MappingReturns(m)
    \/ \E o \in SearchOutcomes : SearchReturns(o)

InitEndpoint ==
    QuietNyaa /\ utc = 0 /\ QuietMapping /\ InitApi /\ QuietPlan /\ QuietCalls

SpecApi == InitEndpoint /\ [][NextApi]_vars

(* One call of search_anime, any mapping, season and episode, any answer   *)
(* of the episode-map service.                                             *)
NextPlan ==
    \/ search_anime
    \/ \E x \in XemOutcomes : XemReturns(x)
    \/ SearchesReturn

InitPlanner ==
    QuietNyaa /\ utc = 0 /\ QuietMapping /\ QuietApi /\ InitPlan
    /\ QuietCalls

SpecPlan == InitPlanner /\ [][NextPlan]_vars

(* One call of handle_search, any query text, marked special by the        *)
(* caller or not.                                                          *)
NextSniff ==
    \E q \in QueryTexts, s \in BOOLEAN : handle_search(q, s)

InitSearchText ==
    QuietServices /\ InitSniff /\ QuietDedup /\ QuietCombo /\ QuietGather
    /\ QuietShared /\ QuietLate

SpecSniff == InitSearchText /\ [][NextSniff]_vars

(* One list of results, deduplicated by the query service, once and again, *)
(* or merged by a handler.                                                 *)
NextDedup ==
    \/ \E xs \in ResultLists : Deduplicate(xs)
    \/ DeduplicateAgain
    \/ \E xs \in ResultLists : MergeByGuid(xs)

InitResults ==
    QuietServices /\ QuietSniff /\ InitDedup /\ QuietCombo /\ QuietGather
    /\ QuietShared /\ QuietLate

SpecDedup == InitResults /\ [][NextDedup]_vars

(* One call of build_combined_query, any titles, episodes and keywords.    *)
NextCombo == \E a \in ComboArgs : BuildCombined(a)

InitBuilder ==
    QuietServices /\ QuietSniff /\ QuietDedup /\ InitCombo /\ QuietGather
    /\ QuietShared /\ QuietLate

SpecCombo == InitBuilder /\ [][NextCombo]_vars

(* One call of _execute_queries: its searches return or raise in any       *)
(* order.                                                                  *)
NextGather ==
    \/ \E n \in 1..MaxQueries : execute_queries(n)
    \/ \E i \in 1..MaxQueries, r \in GatherResults : TaskReturns(i, r)
    \/ \E i \in 1..MaxQueries, r \in GatherResults : TaskRaises(i, r)
    \/ Gathered

InitFanOut ==
    QuietServices /\ QuietSniff /\ QuietDedup /\ QuietCombo /\ InitGather
    /\ QuietShared /\ QuietLate

SpecGather == InitFanOut /\ [][NextGather]_vars

(* The handlers searching through one response cache, one after another.   *)
NextShared ==
    \/ \E q \in SharedQueries, l \in SharedLimits, e \in BOOLEAN,
          f \in Fetches : PlainSearch(q, l, e, f)
    \/ \E q \in SharedQueries, l \in SharedLimits, e, be \in BOOLEAN,
          f, bf \in Fetches : SpecialSearch(q, l, e, f, be, bf)
    \/ \E q \in SharedQueries, e \in BOOLEAN, f \in Fetches :
          CopyingSearch(q, e, f)

InitCallers ==
    QuietServices /\ QuietSniff /\ QuietDedup /\ QuietCombo /\ QuietGather
    /\ InitShared /\ QuietLate

SpecShared == InitCallers /\ [][NextShared]_vars

(* Two callers querying the metadata service again and again, the clock    *)
(* running.                                                                *)
NextBucket ==
    \/ \E c \in BucketCallers : Arrive(c)
    \/ \E c \in BucketCallers : EnterBucket(c)
    \/ \E c \in BucketCallers : LeaveSleep(c)
    \/ TickBucket(BucketTick)

InitMetadata ==
    /\ QuietServices /\ QuietEarly
    /\ InitBucket /\ QuietStore /\ QuietCatalog /\ QuietWanted /\ QuietNormal

SpecBucket == InitMetadata /\ [][NextBucket]_vars

(* The caches loaded from the files a start-up finds, overrides created    *)
(* and deleted at will with any outcome of the writes, the process         *)
(* restarted at will.                                                      *)
StoreIds == {0, 1, 2}

NextStore ==
    \/ \E kind \in StoreKinds \ {"xem"} : load_cache(kind)
    \/ xem_load_cache
    \/ \E id \in StoreIds \ {0}, a \in {0, 7}, found \in BOOLEAN,
            w \in WriteOutcomes : create_override(id, a, found, w)
    \/ \E id \in StoreIds, w \in WriteOutcomes : delete_override(id, w)
    \/ Restart

InitFiles ==
    /\ QuietServices /\ QuietEarly
    /\ QuietBucket /\ InitStore /\ QuietCatalog /\ QuietWanted /\ QuietNormal

SpecStore == InitFiles /\ [][NextStore]_vars

(* The catalog initialized from any copy on disk, updated at will with     *)
(* any outcome of the download and of the write, the process restarted at  *)
(* will.                                                                    *)
NextCatalog ==
    \/ \E dl \in Downloads, w \in WriteOutcomes : initialize(dl, w)
    \/ \E dl \in Downloads, w \in WriteOutcomes : update_database(dl, w)
    \/ IntervalPasses
    \/ StartAgain

InitOffline ==
    /\ QuietServices /\ QuietEarly
    /\ QuietBucket /\ QuietStore /\ InitCatalog /\ QuietWanted /\ QuietNormal

SpecCatalog == InitOffline /\ [][NextCatalog]_vars

(* One tvsearch without season and ep to GET /api, Sonarr configured or    *)
(* not and holding specials or none, and one call of the wanted-episode    *)
(* lookup by episode number.                                               *)
BareRequests ==
    {r \in Requests :
        /\ r.t = "tvsearch" /\ r.tvdbid = 1 /\ r.apikey = API_KEY
        /\ r.season = NoInt /\ r.ep = NoInt
        /\ r.limit = NoInt /\ r.offset = 0}

NextWanted ==
    \/ \E r \in BareRequests : Receive(r)
    \/ \E m \in MappingOutcomes : MappingReturns(m)
    \/ \E o \in SearchOutcomes : SearchReturns(o)
    \/ \E n \in EpisodeNumbers : get_wanted_episode_by_episode_number(n)

InitPvr ==
    /\ QuietNyaa /\ utc = 0 /\ QuietMapping /\ QuietPlan /\ QuietEarly
    /\ sonarrConfigured \in BOOLEAN
    /\ sonarrEpisodes \in SonarrEpisodeChoices \cup SpecialEpisodeChoices
    /\ dispatched = <<>>
    /\ apc = "idle"
    /\ req = NoRequest
    /\ handler = ""
    /\ apiMapping = ""
    /\ resp = NoResponse
    /\ effects = <<>>
    /\ QuietBucket /\ QuietStore /\ QuietCatalog /\ InitWanted /\ QuietNormal

SpecWanted == InitPvr /\ [][NextWanted]_vars

(* One title normalized, and what came out normalized again.               *)
NextNormal == Normalize \/ NormalizeAgain

InitTitle ==
    /\ QuietServices /\ QuietEarly
    /\ QuietBucket /\ QuietStore /\ QuietCatalog /\ QuietWanted /\ InitNormal

SpecNormal == InitTitle /\ [][NextNormal]_vars

----------------------------------------------------------------------------
(* C1.  At every instant at most NYAA_MAX_CONCURRENT_REQUESTS (2) HTTP      *)
(* requests to the indexer are in flight, whatever the number of           *)
(* concurrent searches and whatever the pattern of 429 answers.            *)
C1_AtMostTwoInFlight ==
    Cardinality(InFlight) <= NYAA_MAX_CONCURRENT_REQUESTS

\* two requests are in flight, one of them a retry after a 429, while a
\* third search waits for a permit
C1_Witness ==
    /\ Cardinality(InFlight) = NYAA_MAX_CONCURRENT_REQUESTS
    /\ \E t \in InFlight : attempt[t] > 0
    /\ \E t \in Tasks : pc[t] = "sem"
    /\ permits = 0

(* C2.  Any two HTTP requests sent to the indexer, first attempts and      *)
(* retries after a 429 alike, start at least NYAA_REQUEST_DELAY_SECONDS    *)
(* (0.5 s) apart.                                                          *)
C2_RequestsSpaced == ~tooClose

----------------------------------------------------------------------------
\* the limit of a cache key
KeyLimit(k) == k[5]

\* the records of searches that went to the indexer
Fetched == {i \in 1..Len(log) : ~log[i].hit}

C3_Backoffs == <<1000, 2000, 3000>>

\* the retries of one search, running or finished: sts the statuses
\* received so far, sls the backoffs slept so far
C3_RetryPolicy(sts, sls, finished) ==
    /\ Len(sts) <= MAX_RETRIES + 1
    /\ \A i \in 1..(Len(sts) - 1) : sts[i] = 429
    /\ Len(sls) <= 3
    /\ sls = SubSeq(C3_Backoffs, 1, Len(sls))
    /\ finished => /\ Len(sts) >= 1
                   /\ Len(sls) = Len(sts) - 1
                   /\ sts[Len(sts)] = 429 => Len(sts) = MAX_RETRIES + 1
    /\ ~finished => /\ Len(sls) = Len(sts)
                    /\ \A i \in 1..Len(sts) : sts[i] = 429

\* no fetch of key k stored its results between the returns i and j
C3_NoStoreBetween(i, j, k) ==
    \A m \in Fetched :
        (i < m /\ m < j /\ log[m].key = k) =>
            log[m].statuses[Len(log[m].statuses)] # 200

(* C3.  On 429 a search retries at most 3 times, sleeping 1 s, 2 s and 3 s *)
(* before the first, second and third retry, and stops at the first        *)
(* answer that is not 429; after the answers 429, 429, 200 it returns the  *)
(* results of the third response, and an identical search that the cache   *)
(* serves next gets the same results from an entry younger than 60 s.      *)
C3_RetryThenCache ==
    /\ \A t \in Tasks : pc[t] \in {"wait", "backoff"} =>
           C3_RetryPolicy(statuses[t], sleeps[t], FALSE)
    /\ \A i \in Fetched : C3_RetryPolicy(log[i].statuses, log[i].sleeps, TRUE)
    /\ \A i \in Fetched : log[i].statuses = <<429, 429, 200>> =>
           /\ log[i].sleeps = <<1000, 2000>>
           /\ log[i].ret = ProcessResponse(log[i].body, KeyLimit(log[i].key))
           /\ \A j \in 1..Len(log) :
                  ( /\ i < j
                    /\ log[j].hit
                    /\ log[j].key = log[i].key
                    /\ C3_NoStoreBetween(i, j, log[i].key) ) =>
                        /\ log[j].ret = log[i].ret
                        /\ log[j].statuses = <<>>
                        /\ log[j].age < NYAA_CACHE_TTL

\* a search got 429, 429, 200 and returned the two items of the feed, and
\* the next search, for the same key and some time later, was served the
\* same items by the cache
C3_Witness ==
    /\ Len(log) = 2
    /\ log[1].statuses = <<429, 429, 200>>
    /\ Len(log[1].ret) = 2
    /\ log[2].hit
    /\ log[2].key = log[1].key
    /\ log[2].ret = log[1].ret
    /\ log[2].age > 0

----------------------------------------------------------------------------
\* the cache key of the search task t is running
KeyOf(t) == get_cache_key(cur[t].query, Category, FilterCode, cur[t].limit)

\* the step in which task t calls search
C4_SearchStep(t) ==
    LET k     == IF pc'[t] = "done" THEN log'[Len(log')].key ELSE KeyOf(t)'
        i     == CacheIndex(searchCache, k)
        fresh == i # 0 /\ utc - searchCache[i].at < NYAA_CACHE_TTL
    IN
    IF fresh
    THEN /\ pc'[t] = "done"
         /\ Len(log') = Len(log) + 1
         /\ log'[Len(log')].hit
         /\ log'[Len(log')].statuses = <<>>
         /\ log'[Len(log')].ret = searchCache[i].results
         /\ sinceSend' = sinceSend
         /\ searchCache' = searchCache
    ELSE /\ pc'[t] = "sem"
         /\ log' = log
         /\ CacheIndex(searchCache', k) = 0

(* C4 as amended.  A search made while the cache holds an entry for its    *)
(* key stored less than 60 s earlier returns that entry's list and issues  *)
(* no HTTP request; a search made when the cache holds no such entry, or   *)
(* one stored 60 s or more earlier, goes to the indexer and does not       *)
(* return before it has had an answer to an HTTP request.                  *)
C4_FreshEntryServed ==
    /\ [][\A t \in Tasks : (pc[t] = "idle" /\ pc'[t] # "idle") =>
              C4_SearchStep(t)]_vars
    /\ [](\A i \in Fetched : Len(log[i].statuses) >= 1)

\* the first search stored its results and returned; the second, for the
\* same key and 30 s later, was served the same list by the cache
C4_Witness ==
    /\ Len(log) = 2
    /\ ~log[1].hit
    /\ log[1].statuses = <<200>>
    /\ log[2].hit
    /\ log[2].key = log[1].key
    /\ log[2].ret = log[1].ret
    /\ log[2].age = UtcStep
    /\ log[2].age < NYAA_CACHE_TTL

(* C4 as stated.  Any two searches with the same query, category, filter   *)
(* and limit made less than 60 s apart return the same list and the second *)
(* issues no HTTP request.  The wall clock starts at 0: while it reads     *)
(* less than 60 every two searches were made less than 60 s apart.         *)
C4_SameKeySameList ==
    utc < NYAA_CACHE_TTL =>
        \A i, j \in 1..Len(log) :
            (i < j /\ log[i].key = log[j].key) =>
                /\ log[j].statuses = <<>>
                /\ log[j].ret = log[i].ret

----------------------------------------------------------------------------
\* the keys a cache holds
CacheKeys(c) == {c[i].key : i \in 1..Len(c)}

\* the step in which task t stores the results of its search under key k
C5_StoreStep(k) ==
    LET had == k \in CacheKeys(searchCache)
        n   == Len(searchCache')
    IN
    /\ k \in CacheKeys(searchCache')
    /\ searchCache'[CacheIndex(searchCache', k)].at = utc
    /\ IF ~had /\ Len(searchCache) = NYAA_CACHE_MAX_ENTRIES
       THEN /\ n = NYAA_CACHE_MAX_ENTRIES
            /\ searchCache'[n].key = k
            /\ \E i \in 1..Len(searchCache) :
                   /\ SubSeq(searchCache', 1, n - 1) = RemoveAt(searchCache, i)
                   /\ \A j \in 1..Len(searchCache) :
                          searchCache[i].at <= searchCache[j].at
                   /\ searchCache[i].at <= utc
                   /\ evicted' = [key |-> searchCache[i].key,
                                  at |-> searchCache[i].at]
       ELSE /\ CacheKeys(searchCache') = CacheKeys(searchCache) \cup {k}
            /\ n = Cardinality(CacheKeys(searchCache'))
            /\ evicted' = NoEntry

(* C5.  The response cache never holds more than 100 entries; a store of a *)
(* new key into a cache of 100 removes exactly one entry, one whose store  *)
(* time no other entry's precedes, and never the entry just stored; every  *)
(* other store removes nothing.                                            *)
C5_CacheBounded ==
    /\ [](Len(searchCache) <= NYAA_CACHE_MAX_ENTRIES)
    /\ [][\A t \in Tasks :
              ( /\ pc[t] = "wait"
                /\ pc'[t] = "done"
                /\ log'[Len(log')].statuses[Len(log'[Len(log')].statuses)] = 200 )
              => C5_StoreStep(log'[Len(log')].key)]_vars

\* the cache is full, the last store evicted the oldest filler entry, which
\* was not the first of the dict, and the entry stored is in the cache
C5_Witness ==
    /\ Len(searchCache) = NYAA_CACHE_MAX_ENTRIES
    /\ evicted = [key |-> FillerKey(2), at |-> 0]
    /\ searchCache[1].key = FillerKey(1)
    /\ Len(log) >= 1
    /\ ~log[Len(log)].hit
    /\ log[Len(log)].key \in CacheKeys(searchCache)

----------------------------------------------------------------------------
(* C6.  Every request to GET /api is answered 200, 400 or 403, whatever    *)
(* its parameters and whatever the mapping service, Sonarr and the search  *)
(* client do: no failure of an internal layer leaves the handler as a 5xx. *)
C6_OnlyClientErrors ==
    apc = "done" => resp.status \in {200, 400, 403}

(* C7.  A request with t other than caps whose apikey is missing or is not *)
(* the configured key is answered 403 before the handler has called the    *)
(* mapping service, Sonarr or the search client; a request with t = caps   *)
(* is answered with the capabilities document whatever apikey it carries.  *)
C7_KeyCheckedFirst ==
    /\ (apc # "idle" /\ req.t # "caps" /\ req.apikey # API_KEY) =>
           /\ apc = "done"
           /\ resp = HttpError(403)
           /\ effects = <<>>
    /\ (apc # "idle" /\ req.t = "caps") =>
           /\ apc = "done"
           /\ resp = Caps
           /\ effects = <<>>
    /\ effects # <<>> => req.apikey = API_KEY

\* a tvsearch for a series, with season and episode and a wrong key, has
\* been answered 403
C7_Witness ==
    /\ apc = "done"
    /\ req.t = "tvsearch"
    /\ req.tvdbid = 1
    /\ req.season = 1
    /\ req.ep = 1
    /\ req.apikey = "wrong"
    /\ resp.status = 403

(* C8.  When get_mapping returns nothing for the tvdbid of a tvsearch, the *)
(* request, with or without season and ep, is answered 200 with a channel  *)
(* that has no item, and the search client is never called.                *)
C8_MappingMissEmptyFeed ==
    (req.t = "tvsearch" /\ apiMapping = "none") =>
        /\ apc = "done"
        /\ resp = Response(200, "rss", 0)
        /\ effects = <<"mapping">>

\* a tvsearch without season and ep, with the right key and a numeric
\* query, Sonarr being configured, has been answered after get_mapping
\* returned nothing
C8_Witness ==
    /\ apc = "done"
    /\ req.t = "tvsearch"
    /\ req.tvdbid = 1
    /\ req.season = NoInt
    /\ req.q = "1"
    /\ sonarrConfigured
    /\ apiMapping = "none"
    /\ resp.status = 200

----------------------------------------------------------------------------
\* the step in which a get_mapping of caller c that found an override is
\* called, or returns
C9_OverrideStep(c) ==
    \/ mpc[c] = "idle" /\ mpc'[c] = "override"
    \/ mpc[c] = "override" /\ mpc'[c] = "idle"
    \/ mpc[c] = "idle" /\ mlast' # mlast /\ mlast'.hadOverride

(* C9.  A get_mapping called while an override exists for the id returns a *)
(* mapping built from that override (its id, its anilist_id, its custom    *)
(* titles among the synonyms) with user_override = true, whatever the      *)
(* cache and the catalog hold and whatever the time, without consulting    *)
(* the catalog, and its steps leave the mapping cache and the mappings     *)
(* file as they are.                                                       *)
C9_OverrideWins ==
    /\ [](mlast.hadOverride =>
             /\ mlast.path = "override"
             /\ mlast.ret.user_override
             /\ mlast.ret.tvdb_id = mlast.id
             /\ \E ov \in OverrideChoices :
                    /\ ov.tvdb_id = mlast.id
                    /\ mlast.ret.anilist_id = ov.anilist_id
                    /\ ov.custom_titles \subseteq mlast.ret.titles.synonyms
             /\ "catalog" \notin mlast.consulted)
    /\ [](\A c \in MapCallers : mcall[c].hadOverride => mpc[c] = "override")
    /\ [][\A c \in MapCallers : C9_OverrideStep(c) =>
              /\ mapCache' = mapCache
              /\ mappingsFile' = mappingsFile]_vars

\* a get_mapping for the id of the catalog, called while the cache held a
\* mapping for it and an override existed, returned the mapping of the
\* override enriched by the metadata client, and the cache still holds its
\* own mapping
C9_Witness ==
    /\ mlast.hadOverride
    /\ mlast.id = 1
    /\ mlast.ret.user_override
    /\ mlast.ret.total_episodes = MediaEpisodes
    /\ mapCache[1] # NoMapping
    /\ ~mapCache[1].user_override
    /\ overrides[1] # NoOverride

----------------------------------------------------------------------------
\* the step in which a get_mapping that found no override returns
C10_ReturnStep == mlast' # mlast /\ ~mlast'.hadOverride

\* what the step of a get_mapping without override does, but for the
\* mappings file
C10_Resolved ==
    LET id     == mlast'.id
        cached == mapCache[id]
        fresh  == cached # NoMapping /\ utc - cached.last_updated < MAPPING_CACHE_TTL
    IN
    /\ mlast'.ret # NoMapping => utc - mlast'.ret.last_updated < MAPPING_CACHE_TTL
    /\ mlast'.path = "cache" =>
           /\ fresh
           /\ mlast'.ret = cached
           /\ mlast'.consulted = {}
           /\ mapCache' = mapCache
           /\ mappingsFile' = mappingsFile
    /\ mlast'.path = "catalog" =>
           /\ get_by_tvdb_id(id) # NoAnime
           /\ mlast'.ret.tvdb_id = id
           /\ mlast'.ret.last_updated = utc
           /\ ~mlast'.ret.user_override
           /\ mlast'.ret.titles.romaji = get_by_tvdb_id(id).title
           /\ mapCache' = [mapCache EXCEPT ![id] = mlast'.ret]
    /\ mlast'.path = "none" =>
           /\ ~fresh
           /\ get_by_tvdb_id(id) = NoAnime
           /\ mlast'.ret = NoMapping
           /\ mapCache' = mapCache
           /\ mappingsFile' = mappingsFile
    /\ mlast'.path \in {"cache", "catalog", "none"}

(* C10 as amended.  For an id with no override: a cached mapping younger   *)
(* than MAPPING_CACHE_TTL is returned as it is without consulting the      *)
(* catalog or the metadata client; a cached mapping of that age or more is *)
(* never returned, get_mapping then returns a mapping freshly composed     *)
(* from the catalog, which it stores in the cache and writes to the        *)
(* mappings file, or nothing when the catalog has no entry.  The write may *)
(* fail: the mapping is returned and cached all the same, and the file is  *)
(* left as it was or truncated.                                            *)
C10_CacheThenCatalog ==
    [][C10_ReturnStep =>
          /\ C10_Resolved
          /\ mlast'.path = "catalog" =>
                 \/ mappingsFile' = File("ok", mapCache')
                 \/ mappingsFile' = mappingsFile
                 \/ mappingsFile' = File("torn", NoMappings)]_vars

\* the cached mapping of the id of the catalog had reached the TTL and a
\* get_mapping returned a mapping composed afresh, enriched by the metadata
\* client, which is in the cache and in the mappings file
C10_Witness ==
    /\ mlast.path = "catalog"
    /\ mlast.id = 1
    /\ mlast.ret.last_updated = MAPPING_CACHE_TTL
    /\ mlast.ret.total_episodes = MediaEpisodes
    /\ mapCache[1] = mlast.ret
    /\ mappingsFile = File("ok", mapCache)
    /\ utc = MAPPING_CACHE_TTL

(* C10 as stated.  A mapping freshly composed from the catalog is stored   *)
(* in the cache and persisted: when get_mapping returns it the mappings    *)
(* file holds the cache.                                                   *)
C10_ComposedIsPersisted ==
    [][C10_ReturnStep =>
          /\ C10_Resolved
          /\ mlast'.path = "catalog" => mappingsFile' = File("ok", mapCache')]_vars

----------------------------------------------------------------------------
\* the step in which save_override(ov) runs on a table that did not hold ov
C11_SaveStep(ov) ==
    /\ overrides' # overrides
    /\ overrides'[ov.tvdb_id] = ov

(* C11.  After save_override(o) has returned, whether or not the write of  *)
(* the overrides file succeeded, the overrides table maps o.tvdb_id to o   *)
(* and the mapping cache holds no entry for o.tvdb_id.                     *)
C11_OverrideInvalidatesCache ==
    [][\A ov \in OverrideChoices : C11_SaveStep(ov) =>
           /\ overrides'[ov.tvdb_id] = ov
           /\ mapCache'[ov.tvdb_id] = NoMapping]_vars

----------------------------------------------------------------------------
\* the callers of get_mapping that are composing a mapping for id: past the
\* catalog lookup, waiting for the metadata client, the cache not yet
\* written
Composing(id) == {c \in MapCallers : mpc[c] = "catalog" /\ mcall[c].id = id}

(* C12.  For any concurrent get_mapping calls for one series id that miss  *)
(* the cache, at most one composition (catalog lookup, metadata            *)
(* enrichment, cache write) for that id is in progress at any time.        *)
C12_SingleFlight == \A id \in Ids : Cardinality(Composing(id)) <= 1

----------------------------------------------------------------------------
(* C13.  Every mapping returned by get_mapping, built from an override,    *)
(* served from the cache or composed from the catalog, has at least one    *)
(* search title that is not empty.                                         *)
C13_ReturnedHasTitle ==
    mlast.ret # NoMapping => get_search_titles(mlast.ret) # {}

----------------------------------------------------------------------------
\* search_anime has given its queries to the search client, for a mapping
\* that has a search title
C14_Searched ==
    /\ ppc \in {"search", "done"}
    /\ QueryTitles(pin.mapping) # <<>>

(* C14.  A tvsearch with tvdbid, a season other than 0 and ep, whose       *)
(* mapping resolves, issues exactly one indexer request whatever the       *)
(* number of title variants: one combined query for all the titles.        *)
C14_OneCombinedQuery ==
    (C14_Searched /\ pin.season # 0) => Len(psent) = 1

(* C15.  A tvsearch with tvdbid, season = 0 and ep, whose mapping          *)
(* resolves, issues exactly two indexer requests: one combined query with  *)
(* the keywords OVA, Special, OAD and Movie, and one for the bare title.   *)
C15_TwoSpecialQueries ==
    (C14_Searched /\ pin.season = 0) => Len(psent) = 2

----------------------------------------------------------------------------
\* to_absolute has returned, for a season from 1 on
C16_Returned == ppc \in {"search", "done"} /\ pin.season >= 1

\* the episode-map service has yielded an absolute number
C16_XemYields == pxem.kind = "value" /\ pxem.value # 0

\* the entries of the season shape for a season
C16_Listed(season) ==
    {i \in 1..Len(pin.mapping.season_info) :
         pin.mapping.season_info[i].season = season}

\* the season shape lists the season and the episode is within its count
C16_ShapeApplies ==
    \E i \in C16_Listed(pin.season) :
        pin.episode <= pin.mapping.season_info[i].episodes

\* the sum of the counts of the first n entries that are of earlier seasons
RECURSIVE C16_Earlier(_)
C16_Earlier(n) ==
    IF n = 0 THEN 0
    ELSE C16_Earlier(n - 1)
             + (IF pin.mapping.season_info[n].season < pin.season
                THEN pin.mapping.season_info[n].episodes ELSE 0)

\* what the claim gives once the override is out of the way; flat is the
\* estimate of 12 episodes a season whatever total_episodes is
C16_Value(flat) ==
    IF C16_XemYields THEN pxem.value
    ELSE IF C16_ShapeApplies
    THEN C16_Earlier(Len(pin.mapping.season_info)) + pin.episode
    ELSE IF pin.season = 1 THEN pin.episode
    ELSE IF flat \/ pin.mapping.total_episodes > 0
    THEN (pin.season - 1) * 12 + pin.episode
    ELSE pin.episode

\* the mapping is a user override whose override lists SxxEyy
C16_Overridden ==
    /\ pin.mapping.user_override
    /\ pin.override.exists
    /\ \E i \in 1..Len(pin.override.season_episode_overrides) :
           pin.override.season_episode_overrides[i].key = <<pin.season, pin.episode>>

(* C16 as amended.  to_absolute returns the absolute number the override   *)
(* gives for SxxEyy when the mapping is a user override whose override     *)
(* lists that key, without asking the episode-map service; otherwise the   *)
(* service's number when it yields one; otherwise, when the season shape   *)
(* lists the season and episode <= its count, the counts of the earlier    *)
(* seasons plus episode; otherwise episode when season = 1, and for        *)
(* season > 1 (season - 1) * 12 + episode when total_episodes > 0 and      *)
(* episode when total_episodes = 0.                                        *)
C16_ToAbsolute ==
    C16_Returned =>
        IF C16_Overridden
        THEN /\ pxem = NoXem
             /\ \E i \in 1..Len(pin.override.season_episode_overrides) :
                    /\ pin.override.season_episode_overrides[i].key
                           = <<pin.season, pin.episode>>
                    /\ pabs = pin.override.season_episode_overrides[i].absolute
        ELSE pxem # NoXem /\ pabs = C16_Value(FALSE)

\* the service yielded nothing for S02E01 of a mapping that is no override
\* and whose season shape, listed out of order, counts 12 episodes for
\* season 1: to_absolute returned 13
C16_Witness ==
    /\ ppc = "done"
    /\ pxem.kind = "none"
    /\ ~pin.mapping.user_override
    /\ pin.season = 2
    /\ pin.episode = 1
    /\ pin.mapping.season_info # <<>>
    /\ pin.mapping.season_info[1].season = 2
    /\ pabs = 13

(* C16 as stated.  to_absolute returns the episode-map service's number    *)
(* when the service yields one; otherwise the season-shape sum when it     *)
(* applies; otherwise episode when season = 1 and (season - 1) * 12 +      *)
(* episode when season > 1.                                                *)
C16_AsStated == C16_Returned => pabs = C16_Value(TRUE)

----------------------------------------------------------------------------
\* handle_tvsearch_special has had a mapping with titles
C17_SpecialWithTitles ==
    /\ handler # ""
    /\ req.t = "tvsearch"
    /\ req.tvdbid # NoInt
    /\ (req.season = NoInt \/ req.ep = NoInt)
    /\ apiMapping = "titles"

\* q is an all-digit string whose value is greater than 0
C17_NumericQuery ==
    /\ req.q \notin {NoStr, ""}
    /\ IsDigit(req.q)
    /\ ~IntRaises(req.q)
    /\ IntOf(req.q) > 0

\* the positions in Sonarr's list of the episodes numbered n of a season
\* other than 0
C17_Candidates(n) ==
    {i \in 1..Len(sonarrEpisodes) :
         /\ sonarrEpisodes[i].episodeNumber = n
         /\ sonarrEpisodes[i].seasonNumber > 0}

\* those of them that are monitored and have no file or, if there is none,
\* all of them
C17_Wanted(n) ==
    LET missing == {i \in C17_Candidates(n) :
                        /\ sonarrEpisodes[i].monitored
                        /\ ~sonarrEpisodes[i].hasFile}
    IN IF missing # {} THEN missing ELSE C17_Candidates(n)

(* C17.  With Sonarr configured and a tvsearch with tvdbid, an all-digit   *)
(* q > 0 and no season/ep: when the wanted episodes numbered q (those of a *)
(* season > 0 that are monitored and have no file or, if there is none,    *)
(* all candidates) are not empty, none being a special, exactly one        *)
(* absolute-episode search is dispatched, whose episode part is the set of *)
(* the absolute numbers of those episodes.                                 *)
C17_WantedEpisodesSearched ==
    ( /\ apc = "done"
      /\ C17_SpecialWithTitles
      /\ C17_NumericQuery
      /\ sonarrConfigured
      /\ C17_Wanted(IntOf(req.q)) # {} ) =>
        /\ Len(dispatched) = 1
        /\ dispatched[1].fn = "_search_for_absolute_episodes"
        /\ Range(dispatched[1].episodes) =
               {sonarrEpisodes[i].absoluteEpisodeNumber :
                    i \in C17_Wanted(IntOf(req.q))}

(* C18.  For a tvsearch with tvdbid, no season/ep and an all-digit q of    *)
(* value q_num > 0: when Sonarr is not configured, or is configured and    *)
(* has neither a wanted episode numbered q_num nor an episode whose        *)
(* absolute number is q_num, exactly one absolute-episode search with the  *)
(* episode set {q_num} is dispatched.                                      *)
C18_QueryAsAbsolute ==
    ( /\ apc = "done"
      /\ C17_SpecialWithTitles
      /\ C17_NumericQuery
      /\ \/ ~sonarrConfigured
         \/ /\ C17_Wanted(IntOf(req.q)) = {}
            /\ \A i \in 1..Len(sonarrEpisodes) :
                   sonarrEpisodes[i].absoluteEpisodeNumber # IntOf(req.q) ) =>
        dispatched = << Dispatched("_search_for_absolute_episodes",
                                   <<IntOf(req.q)>>) >>

(* C19.  For a tvsearch with tvdbid and no season/ep whose mapping has     *)
(* titles and whose q is missing, empty, not all digits, or all digits of  *)
(* value 0, one special search without an episode number is dispatched,    *)
(* and Sonarr is never queried.                                            *)
C19_SpecialWithoutEpisode ==
    ( /\ C17_SpecialWithTitles
      /\ \/ req.q \in {NoStr, ""}
         \/ ~IsDigit(req.q)
         \/ ~IntRaises(req.q) /\ IntOf(req.q) = 0 ) =>
        /\ apc \in {"search", "done"}
        /\ dispatched = << Dispatched("_search_for_special", <<>>) >>
        /\ handler = "_search_for_special"

\* Sonarr being configured and holding wanted episodes, a tvsearch for a
\* series with q = "0" and no season/ep has been answered by the special
\* search
C19_Witness ==
    /\ apc = "done"
    /\ sonarrConfigured
    /\ sonarrEpisodes # <<>>
    /\ req.t = "tvsearch"
    /\ req.tvdbid = 1
    /\ req.season = NoInt
    /\ req.q = "0"
    /\ apiMapping = "titles"
    /\ dispatched = << Dispatched("_search_for_special", <<>>) >>
    /\ resp.status = 200

----------------------------------------------------------------------------
\* the text ends with spaces followed by 00
C20_EndsWith00(q) ==
    \E n \in 1..(Len(q) - 2) :
        /\ \A i \in n..(Len(q) - 2) : q[i] = " "
        /\ SubSeq(q, Len(q) - 1, Len(q)) = <<"0", "0">>

\* r is q without its suffix of spaces and two digits, and without spaces
\* around what is left: q is a spaces, then r, then spaces, then 0 and a
\* digit
C20_Stripped(q, r) ==
    \E a \in 0..Len(q), b \in 0..(Len(q) - 3) :
        /\ a <= b
        /\ r = SubSeq(q, a + 1, b)
        /\ \A i \in 1..a : q[i] = " "
        /\ \A i \in (b + 1)..(Len(q) - 2) : q[i] = " "
        /\ q[Len(q) - 1] = "0"
        /\ q[Len(q)] \in {"0", "1"}
        /\ r = <<>> \/ (r[1] # " " /\ r[Len(r)] # " ")

\* the text holds a season indicator: S or s and digits, as a word
C20_HasSeason(q) ==
    \E i \in 1..Len(q), j \in 1..Len(q) :
        /\ i < j
        /\ q[i] \in {"S", "s"}
        /\ \A k \in (i + 1)..j : q[k] \in {"0", "1"}
        /\ i = 1 \/ q[i - 1] = " "
        /\ j = Len(q) \/ q[j + 1] = " "

C20_Special == hsearch.is_special /\ hsearch.keywords = special_keywords

C20_Plain == ~hsearch.is_special /\ hsearch.keywords = <<>>

----------------------------------------------------------------------------
(* C21.  No response carries more items than the limit of the request      *)
(* (100 when the request names none), and none carries more than 100: a    *)
(* limit above 100 counts as 100.                                          *)
C21_AtMostLimit ==
    (apc = "done" /\ resp.kind = "rss") =>
        /\ resp.items <= LimitOf(req.limit)
        /\ resp.items <= 100

----------------------------------------------------------------------------
\* the guids, and the normalized titles, of a list are pairwise distinct
C22_Distinct(rs) ==
    \A i, j \in 1..Len(rs) :
        i # j => /\ rs[i].guid # rs[j].guid
                 /\ normalize_title(rs[i].title) # normalize_title(rs[j].title)

(* C22.  Deduplication is idempotent: what _deduplicate_results returns   *)
(* has pairwise distinct guids and pairwise distinct normalized titles,    *)
(* and _deduplicate_results given that list returns it again, element for  *)
(* element.                                                                *)
C22_Idempotent ==
    /\ (dpc \in {"once", "twice"} /\ ~dout.raises) => C22_Distinct(dout.results)
    /\ dpc = "twice" => dout2 = dout

\* a list with a repeated guid and a repeated normalized title has been
\* deduplicated twice
C22_Witness ==
    /\ dpc = "twice"
    /\ Len(dxs) = 3
    /\ dxs[1].guid = dxs[2].guid
    /\ dxs[2].guid # dxs[3].guid
    /\ normalize_title(dxs[2].title) = normalize_title(dxs[3].title)
    /\ dxs[2].title # dxs[3].title
    /\ Len(dout.results) = 1
    /\ dout2 = dout

\* the lists that are xs in another order
C24_Permuted(xs) ==
    { [i \in 1..Len(xs) |-> xs[f[i]]] :
          f \in {g \in [1..Len(xs) -> 1..Len(xs)] :
                     \A i, j \in 1..Len(xs) : i # j => g[i] # g[j]} }

\* any two results that differ are ordered by their seeders or, the seeders
\* equal, by their dates
C24_NoTie(xs) ==
    \A i, j \in 1..Len(xs) :
        \/ xs[i] = xs[j]
        \/ xs[i].seeders # xs[j].seeders
        \/ xs[i].aware = xs[j].aware /\ xs[i].pub_date # xs[j].pub_date

(* C24.  Given results of which no two that differ have the same seeders   *)
(* and the same or incomparable publication dates, _deduplicate_results    *)
(* returns the same list for every order in which they are given.          *)
C24_OrderInsensitive ==
    (dpc = "once" /\ C24_NoTie(dxs)) =>
        /\ ~dout.raises
        /\ \A ys \in C24_Permuted(dxs) : deduplicate_results(ys) = dout

\* three results without tie, of two guids and two normalized titles, have
\* been deduplicated to fewer, and not in the order they came in
C24_Witness ==
    /\ dpc = "once"
    /\ C24_NoTie(dxs)
    /\ Len(dxs) = 3
    /\ \E i, j \in 1..3 : i # j /\ dxs[i].guid = dxs[j].guid /\ dxs[i] # dxs[j]
    /\ Len(dout.results) = 2
    /\ dout.results[1] = dxs[3]

\* the statement for every list: the order of the results never matters
C24_AsStated ==
    dpc = "once" =>
        \A ys \in C24_Permuted(dxs) : deduplicate_results(ys) = dout

(* C25.  Where results are merged, of the results that share a guid the    *)
(* one kept has the most seeders and, among those, the newest publication  *)
(* date: in the query service's deduplication and in the handlers' merge.  *)
C25_BestOfGuidKept ==
    LET Best(kept) ==
            \A i \in 1..Len(kept), j \in 1..Len(dxs) :
                dxs[j].guid = kept[i].guid =>
                    /\ dxs[j].seeders <= kept[i].seeders
                    /\ dxs[j].seeders = kept[i].seeders =>
                           dxs[j].pub_date <= kept[i].pub_date
    IN /\ (dpc = "once" /\ ~dout.raises) => Best(dout.results)
       /\ dpc = "merged" => Best(dmerged)

----------------------------------------------------------------------------
\* the elements between bars
RECURSIVE C23_Bars(_, _)
C23_Bars(elems, n) ==
    IF n = 0 THEN <<>>
    ELSE IF n = 1 THEN elems[1]
    ELSE C23_Bars(elems, n - 1) \o <<"|">> \o elems[n]

\* a part as it is written: one element bare, several as (a|b|...)
C23_Written(elems) ==
    IF Len(elems) = 1 THEN elems[1]
    ELSE <<"(">> \o C23_Bars(elems, Len(elems)) \o <<")">>

\* the sanitized titles, one for each title that is not blank, in order
C23_Titles ==
    LET at == {i \in 1..Len(bargs.titles) :
                   \E k \in 1..Len(bargs.titles[i]) : bargs.titles[i][k] # " "}
        nth(n) == CHOOSE i \in at : Cardinality({j \in at : j < i}) = n - 1
    IN [n \in 1..Cardinality(at) |-> quote_title(bargs.titles[nth(n)])]

\* the distinct keywords, each once, in the order of their first places
C23_Keywords ==
    LET first(k) == CHOOSE i \in 1..Len(bargs.keywords) :
                        /\ bargs.keywords[i] = k
                        /\ \A j \in 1..(i - 1) : bargs.keywords[j] # k
    IN CHOOSE ks \in ListsOf(ComboKeywords) :
           /\ {ks[i] : i \in 1..Len(ks)} =
                  {bargs.keywords[i] : i \in 1..Len(bargs.keywords)}
           /\ \A i, j \in 1..Len(ks) : i < j => first(ks[i]) < first(ks[j])

\* the distinct episode numbers, each once, ascending
C23_Episodes ==
    CHOOSE es \in ListsOf(ComboEpisodes) :
        /\ {es[i] : i \in 1..Len(es)} =
               {bargs.episodes[i] : i \in 1..Len(bargs.episodes)}
        /\ \A i, j \in 1..Len(es) : i < j => es[i] < es[j]

(* C23.  Given at least one title that is not blank, build_combined_query  *)
(* returns the title part, then the keyword part if there are keywords,    *)
(* then the episode part if there are episodes, single spaces between      *)
(* them; the parts hold each sanitized title, each distinct keyword and    *)
(* each distinct episode number (ascending) once; a part of one element is *)
(* bare, a part of several is (a|b|...).                                   *)
C23_CombinedQuery ==
    (bpc = "built" /\ C23_Titles # <<>>) =>
        bquery =
            C23_Written(C23_Titles)
            \o (IF bargs.keywords = <<>> THEN <<>>
                ELSE <<" ">> \o C23_Written([i \in 1..Len(C23_Keywords) |->
                                                <<C23_Keywords[i]>>]))
            \o (IF bargs.episodes = <<>> THEN <<>>
                ELSE <<" ">> \o C23_Written([i \in 1..Len(C23_Episodes) |->
                                        <<ToString(C23_Episodes[i])>>]))

\* ("a b"|a) OVA (1|2) has been built from two titles, a keyword given
\* twice and the episodes 2 and 1
C23_Witness ==
    /\ bpc = "built"
    /\ bargs.titles = << <<"a", " ", "b">>, <<"\"", "a">> >>
    /\ bargs.keywords = <<"OVA", "OVA">>
    /\ bargs.episodes = <<2, 1>>
    /\ bquery = << "(", "\"", "a", " ", "b", "\"", "|", "a", ")", " ", "OVA",
                   " ", "(", "1", "|", "2", ")" >>

----------------------------------------------------------------------------
(* C26.  When the indexer answers with more items than limit, search       *)
(* returns limit items in descending order of seeders, and no item it      *)
(* leaves out has more seeders than one it returns.                        *)
C26_TopSeedersReturned ==
    \A i \in Fetched :
        LET items == log[i].body.items
            ret   == log[i].ret
            limit == KeyLimit(log[i].key)
        IN ( /\ log[i].statuses[Len(log[i].statuses)] = 200
             /\ log[i].body.wellFormed
             /\ Len(items) > limit ) =>
               /\ Len(ret) = limit
               /\ \A j, k \in 1..Len(ret) : j < k => ret[j].seeders >= ret[k].seeders
               /\ \A j \in 1..Len(items), k \in 1..Len(ret) :
                      (\A m \in 1..Len(ret) : ret[m].guid # items[j].guid) =>
                          items[j].seeders <= ret[k].seeders

----------------------------------------------------------------------------
(* C27.  When the mapping is a user override and the override's table has  *)
(* an entry for the season and episode asked for, to_absolute returns the  *)
(* value of that entry and the episode-map service is not asked.           *)
C27_OverrideEntryReturned ==
    ( /\ ppc \in {"search", "done"}
      /\ pin.mapping.user_override
      /\ pin.override.exists ) =>
        \A i \in 1..Len(pin.override.season_episode_overrides) :
            LET entry == pin.override.season_episode_overrides[i]
            IN entry.key = <<pin.season, pin.episode>> =>
                   pabs = entry.absolute /\ pxem = NoXem

\* S02E01, for which the override lists 40, has been translated to 40 and
\* the service was not asked
C27_Witness ==
    /\ ppc = "done"
    /\ pin.mapping.user_override
    /\ pin.override.exists
    /\ pin.season = 2
    /\ pin.episode = 1
    /\ pabs = 40
    /\ pxem = NoXem

(* C28.  For every mapping, season >= 0 and episode >= 1, whatever the     *)
(* episode-map service answers, to_absolute returns an integer >= 1.       *)
C28_AbsoluteAtLeastOne ==
    (ppc \in {"search", "done"} /\ pin.season >= 0 /\ pin.episode >= 1) =>
        pabs >= 1

----------------------------------------------------------------------------
\* the searches of the call that returned, and those that raised
C29_Returned == { i \in 1..Len(gtasks) : gtasks[i].state = "returned" }

C29_Raised == { i \in 1..Len(gtasks) : gtasks[i].state = "raised" }

\* the results of search i stand together in all_results
C29_In(i) ==
    \E k \in 0..Len(gall) :
        /\ k + Len(gtasks[i].results) <= Len(gall)
        /\ SubSeq(gall, k + 1, k + Len(gtasks[i].results)) = gtasks[i].results

\* the number of results the searches of 1..i returned
RECURSIVE C29_Count(_)
C29_Count(i) ==
    IF i = 0 THEN 0
    ELSE C29_Count(i - 1)
         + (IF gtasks[i].state = "returned" THEN Len(gtasks[i].results) ELSE 0)

(* C29. When some of the searches started together for one request raise,  *)
(* the exception does not leave the gathering; _execute_queries returns    *)
(* only once every search has returned or raised, and all_results then     *)
(* holds the results of every search that returned, and nothing else.      *)
C29_FailuresIsolated ==
    /\ gpc # "failed"
    /\ gpc = "returned" =>
        /\ \A i \in 1..Len(gtasks) : gtasks[i].state # "running"
        /\ \A i \in C29_Returned : C29_In(i)
        /\ Len(gall) = C29_Count(Len(gtasks))

\* a call returned with results although one of its searches raised
C29_Witness ==
    /\ gpc = "returned"
    /\ C29_Raised # {}
    /\ \E i \in C29_Returned : gtasks[i].results # <<>>
    /\ gall # <<>>

----------------------------------------------------------------------------
\* the keys with a list in the cache
C30_Cached == { k \in SharedKeys : kcache[k] # NoList }

(* C30. A list in the response cache is what was stored under its key, of  *)
(* at most limit results, whatever the handlers have done since with the   *)
(* lists search returned to them.                                          *)
C30_EntryAsStored ==
    \A k \in C30_Cached :
        /\ kcache[k] = kstored[k]
        /\ Len(kcache[k]) <= KeyLimit(k)

----------------------------------------------------------------------------
\* the fetch of a finished search failed: no response (status 0), a status
\* that is not a success, or a body that is no RSS document
C31_FetchFailed(r) ==
    /\ ~r.hit
    /\ \/ r.statuses[Len(r.statuses)] # 200
       \/ ~r.body.wellFormed

(* C31. A search whose fetch failed (transport error, error status, 429    *)
(* after the last retry, or a body that does not parse as RSS) returns an  *)
(* empty list and leaves the response cache as it was.                     *)
C31_FailureNotCached ==
    [][(Len(log') = Len(log) + 1 /\ C31_FetchFailed(log'[Len(log')]))
           => /\ log'[Len(log')].ret = <<>>
              /\ searchCache' = searchCache]_vars

----------------------------------------------------------------------------
\* every search has ended: returned, or cancelled
C32_AllEnded == \A t \in RateTasks : pc[t] \in {"done", "cancelled"}

\* no search is under way
C32_NoneRunning == \A t \in RateTasks : pc[t] \in {"idle", "done", "cancelled"}

(* C32. With the indexer answering every request, every search that has    *)
(* started ends, whatever the number of searches running with it (a task   *)
(* searches once, so that the searches under way all end if and only if    *)
(* again and again none is under way); none                                *)
(* sends more than MAX_RETRIES + 1 = 4 requests; a search that ends, by    *)
(* returning, on an error, on an exception or cancelled, gives back its    *)
(* permit, so that all NYAA_MAX_CONCURRENT_REQUESTS permits and the lock   *)
(* are free once all have ended.                                           *)
C32_EverySearchEnds ==
    /\ []<>C32_NoneRunning
    /\ [](\A t \in RateTasks : Len(statuses[t]) <= MAX_RETRIES + 1)
    /\ [](\A i \in 1..Len(log) : Len(log[i].statuses) <= MAX_RETRIES + 1)
    /\ [](C32_AllEnded =>
              permits = NYAA_MAX_CONCURRENT_REQUESTS /\ lockHeld = 0)

\* three searches have ended: one was cancelled, one returned after four
\* requests, one returned after a request that raised
C32_Witness ==
    /\ C32_AllEnded
    /\ \E t \in RateTasks : pc[t] = "cancelled"
    /\ \E i \in 1..Len(log) : Len(log[i].statuses) = MAX_RETRIES + 1
    /\ \E i \in 1..Len(log) :
           /\ log[i].statuses # <<>>
           /\ log[i].statuses[Len(log[i].statuses)] = 0
    /\ permits = NYAA_MAX_CONCURRENT_REQUESTS

----------------------------------------------------------------------------
(* C33. However the metadata queries interleave, the token counter is      *)
(* never negative, at most ANILIST_RATE_LIMIT queries pass between two     *)
(* resets of the window, and a query that finds no token passes only when  *)
(* the 60 seconds since the last reset have ended.                         *)
C33_BucketHolds ==
    /\ tokens >= 0
    /\ admitted <= ANILIST_RATE_LIMIT
    /\ ~early

\* all tokens of the window are used; a query that found none holds the
\* lock, its sleep has lasted to the end of the window, and the other
\* query waits for the lock
C33_Witness ==
    /\ admitted = ANILIST_RATE_LIMIT
    /\ tokens = 0
    /\ \E c \in BucketCallers : wpc[c] = "sleep" /\ wlock = c
    /\ wsleep = 0
    /\ sinceReset = RATE_LIMIT_WINDOW
    /\ \E c \in BucketCallers : wpc[c] = "lock"

(* C34. When the load of a persisted cache (mappings, overrides, episode-  *)
(* map cache) has failed at any point, an invalid entry after valid ones   *)
(* included, the dict in memory is empty: no entry of the failed file is   *)
(* in it.                                                                   *)
C34_FailedLoadEmpty ==
    (slast.op = "load" /\ sfailed) => smem = <<>>

(* C38. After any sequence of creations and deletions of overrides, when   *)
(* the last of them has written the file, the overrides file holds         *)
(* exactly the overrides of the table in memory.                           *)
C38_FileIsTable ==
    (slast.op \in {"create", "delete"} /\ slast.written = "ok")
        => sfile = File("ok", Dumped(smem))

(* C35. The mappings file is never half-written: at every point, during    *)
(* and after a save and when a save stops in the middle, the file holds    *)
(* a complete content, the previous or the new one.                        *)
C35_NeverHalfWritten ==
    mappingsFile.state # "torn"

C36_DownloadFailed == clast.op # "" /\ clast.dl \in {"fails", "not_json"}

(* C36. When the download of the catalog has failed in initialize or in    *)
(* update_database: a catalog that was loaded before answers as before;    *)
(* with none loaded and a usable copy on disk, the copy answers; with      *)
(* neither, every lookup by series id finds nothing and the search by      *)
(* title returns nothing.                                                   *)
C36_FallsBack ==
    C36_DownloadFailed =>
        IF clast.before.data.present
        THEN cdata = clast.before.data /\ cindex = clast.before.index
        ELSE IF clast.copy = "ok"
        THEN cdata = cfile.content /\ cindex = build_tvdb_index(cdata).index
        ELSE /\ \A id \in CatalogIds : cindex.tvdb[id] = NoAnime2
             /\ \A q \in {"Sousou no Frieren", "86"} :
                    search_by_title(cdata, q) = <<>>

(* C37. After any sequence of initialize and update_database, whichever    *)
(* step of them has failed, the series-id and movie-id indexes are the     *)
(* indexes derived from the catalog data held in memory.                   *)
C37_IndexesOfData ==
    cpc = "ready" => cindex = build_tvdb_index(cdata).index

C40_NormalizeIdempotent ==
    npc = "twice" => nout2 = nout

====
